---- MODULE Spec2Model ----
(***************************************************************************)
(* RBC bank-statement parser: the fragment grouper and the three           *)
(* transaction segmenters (row-based, token-scan, front-end line-based),    *)
(* the statement summary and two concurrent front-end calls.               *)
(* Strings are TLA+ strings; the regular expressions of the source are     *)
(* matched character by character.  Money is counted in cents.             *)
(***************************************************************************)
EXTENDS Integers, Sequences, FiniteSets, TLC

VARIABLES
    pages,          \* extractTextFromPdf: per page, the fragments of getTextContent()
    pageNum,        \* extractTextFromPdf: index of the next page to group
    lines,          \* the reconstructed lines / extracted items of the document
    transactionLines, \* front end: the lines getTransactionLines hands to parseTransactions
    i,              \* scan index of the segmenter loop
    steps,          \* iterations the row-based or token-scan segmenter loop has made
    endIndex,       \* token-scan: findTransactionEndIndex
    currentDate,    \* sticky date of the segmenter
    transactions,   \* result list of the segmenter
    error,          \* message of the Error thrown, "" when none
    metadata,       \* extractStatementMetadata: the summary fields of the statement
    calls,          \* the locals of each of the parseStatement calls that run concurrently
    verdicts,       \* the classifications of the tokens classified so far
    ui,             \* the state of the upload component and its pending parser call
    pc              \* position of the call

segVars == <<transactionLines, i, endIndex, currentDate, transactions, error, metadata,
            calls, verdicts, ui, steps>>
vars == <<pages, pageNum, lines, transactionLines, i, endIndex, currentDate, transactions,
          error, metadata, calls, verdicts, ui, steps, pc>>

(***************************************************************************)
(* Characters and the JavaScript string primitives the parsers use.        *)
(***************************************************************************)
Digits == {"0", "1", "2", "3", "4", "5", "6", "7", "8", "9"}

UpperSeq == <<"A", "B", "C", "D", "E", "F", "G", "H", "I", "J", "K", "L", "M",
              "N", "O", "P", "Q", "R", "S", "T", "U", "V", "W", "X", "Y", "Z">>

LowerSeq == <<"a", "b", "c", "d", "e", "f", "g", "h", "i", "j", "k", "l", "m",
              "n", "o", "p", "q", "r", "s", "t", "u", "v", "w", "x", "y", "z">>

Upper == {UpperSeq[k] : k \in DOMAIN UpperSeq}

Lower == {LowerSeq[k] : k \in DOMAIN LowerSeq}

\* s[p], 1-based; "" outside the string
Ch(s, p) == IF p >= 1 /\ p <= Len(s) THEN SubSeq(s, p, p) ELSE ""

\* \d
IsDigit(c) == c \in Digits

\* \w
IsWordCh(c) == c \in Digits \/ c \in Upper \/ c \in Lower \/ c = "_"

\* \s
IsSpace(c) == c = " "

\* [A-Za-z0-9]
IsAlnum(c) == c \in Digits \/ c \in Upper \/ c \in Lower

DigitVal(c) ==
    CASE c = "0" -> 0 [] c = "1" -> 1 [] c = "2" -> 2 [] c = "3" -> 3
      [] c = "4" -> 4 [] c = "5" -> 5 [] c = "6" -> 6 [] c = "7" -> 7
      [] c = "8" -> 8 [] c = "9" -> 9

LowerCh(c) ==
    IF c \in Upper THEN LowerSeq[CHOOSE k \in DOMAIN UpperSeq : UpperSeq[k] = c] ELSE c

UpperCh(c) ==
    IF c \in Lower THEN UpperSeq[CHOOSE k \in DOMAIN LowerSeq : LowerSeq[k] = c] ELSE c

\* String.prototype.toLowerCase, character by character
RECURSIVE toLowerCase(_)
toLowerCase(s) ==
    IF \A p \in 1..Len(s) : SubSeq(s, p, p) \notin Upper THEN s
    ELSE IF Len(s) = 1 THEN LowerCh(s)
    ELSE toLowerCase(SubSeq(s, 1, Len(s) \div 2))
         \o toLowerCase(SubSeq(s, Len(s) \div 2 + 1, Len(s)))

\* String.prototype.toUpperCase, character by character
RECURSIVE toUpperCase(_)
toUpperCase(s) ==
    IF \A p \in 1..Len(s) : SubSeq(s, p, p) \notin Lower THEN s
    ELSE IF Len(s) = 1 THEN UpperCh(s)
    ELSE toUpperCase(SubSeq(s, 1, Len(s) \div 2))
         \o toUpperCase(SubSeq(s, Len(s) \div 2 + 1, Len(s)))

\* String.prototype.indexOf, 1-based; 0 when sub does not occur
indexOf(s, sub) ==
    LET n == Len(sub)
        hits == {p \in 1..(Len(s) - n + 1) : SubSeq(s, p, p + n - 1) = sub}
    IN  IF hits = {} THEN 0 ELSE CHOOSE p \in hits : \A q \in hits : p <= q

\* String.prototype.includes
includes(s, sub) == \E p \in 1..(Len(s) - Len(sub) + 1) : SubSeq(s, p, p + Len(sub) - 1) = sub

\* String.prototype.startsWith
startsWith(s, pre) == Len(pre) <= Len(s) /\ SubSeq(s, 1, Len(pre)) = pre

\* String.prototype.trim
trim(s) ==
    LET keep == {p \in 1..Len(s) : ~IsSpace(Ch(s, p))}
    IN  IF keep = {} THEN ""
        ELSE SubSeq(s, CHOOSE p \in keep : \A q \in keep : p <= q,
                       CHOOSE p \in keep : \A q \in keep : p >= q)

\* String.prototype.replace(sub, '') with a string pattern: the first occurrence only
replaceFirst(s, sub) ==
    LET p == indexOf(s, sub)
    IN  IF p = 0 \/ Len(sub) = 0 THEN s
        ELSE SubSeq(s, 1, p - 1) \o SubSeq(s, p + Len(sub), Len(s))

\* Array.prototype.join(' ')
RECURSIVE join(_)
join(ws) ==
    IF Len(ws) = 0 THEN ""
    ELSE IF Len(ws) = 1 THEN ws[1]
    ELSE ws[1] \o " " \o join(Tail(ws))

(***************************************************************************)
(* The amount pattern \d{1,3}(?:,\d{3})*(?:\.\d{2})? and the numbers it     *)
(* yields.  Each part is greedy; every later part is optional, so the      *)
(* greedy match is the match the regular-expression engine returns.        *)
(***************************************************************************)
\* \d{1,3} at p: the position after the digits, 0 when s[p] is no digit
digits13End(s, p) ==
    IF ~IsDigit(Ch(s, p)) THEN 0
    ELSE IF ~IsDigit(Ch(s, p + 1)) THEN p + 1
    ELSE IF ~IsDigit(Ch(s, p + 2)) THEN p + 2
    ELSE p + 3

\* (?:,\d{3})* at p: the position after the last group
RECURSIVE groupsEnd(_, _)
groupsEnd(s, p) ==
    IF Ch(s, p) = "," /\ IsDigit(Ch(s, p + 1)) /\ IsDigit(Ch(s, p + 2)) /\ IsDigit(Ch(s, p + 3))
    THEN groupsEnd(s, p + 4)
    ELSE p

\* (?:\.\d{2})? at p
centsEnd(s, p) ==
    IF Ch(s, p) = "." /\ IsDigit(Ch(s, p + 1)) /\ IsDigit(Ch(s, p + 2)) THEN p + 3 ELSE p

\* \d{1,3}(?:,\d{3})*(?:\.\d{2})? at p: the position after the match, 0 when none
amountEnd(s, p) ==
    LET d == digits13End(s, p)
    IN  IF d = 0 THEN 0 ELSE centsEnd(s, groupsEnd(s, d))

\* \$?(\d{1,3}(?:,\d{3})*(?:\.\d{2})?) at p: the position after the match, 0 when none
dollarAmountEnd(s, p) ==
    IF Ch(s, p) = "$" /\ amountEnd(s, p + 1) # 0 THEN amountEnd(s, p + 1) ELSE amountEnd(s, p)

\* parseFloat of an amount-shaped text with '$' and ',' removed, in cents
RECURSIVE parseCentsFrom(_, _, _)
parseCentsFrom(s, p, acc) ==
    IF p > Len(s) THEN acc * 100
    ELSE IF Ch(s, p) = "." THEN acc * 100 + DigitVal(Ch(s, p + 1)) * 10 + DigitVal(Ch(s, p + 2))
    ELSE IF IsDigit(Ch(s, p)) THEN parseCentsFrom(s, p + 1, acc * 10 + DigitVal(Ch(s, p)))
    ELSE parseCentsFrom(s, p + 1, acc)

parseCents(s) == parseCentsFrom(s, 1, 0)

(***************************************************************************)
(* Fragment grouper: extractTextFromPdf (static) and extractLines          *)
(* (front end).  A fragment is [str, x, y2]: the text, transform[4], and   *)
(* transform[5] counted in halves, so that Math.round has work to do.      *)
(***************************************************************************)
\* Math.round(y2 / 2): halves round towards +Infinity
round(y2) == (y2 + 1) \div 2

\* a grouper that leaves the items of a line in extraction order
insertUnsorted(sorted, item) == Append(sorted, item)

\* items.sort((a, b) => a.x - b.x): a stable sort, ties keep their order
RECURSIVE insertByX(_, _)
insertByX(sorted, item) ==
    IF Len(sorted) = 0 THEN <<item>>
    ELSE IF sorted[Len(sorted)].x <= item.x THEN Append(sorted, item)
    ELSE Append(insertByX(SubSeq(sorted, 1, Len(sorted) - 1), item), sorted[Len(sorted)])

RECURSIVE sortByX(_)
sortByX(items) ==
    IF Len(items) = 0 THEN <<>>
    ELSE insertByX(sortByX(SubSeq(items, 1, Len(items) - 1)), items[Len(items)])

\* the keys sorted by (a, b) => b - a
RECURSIVE sortDescending(_)
sortDescending(ys) ==
    IF ys = {} THEN <<>>
    ELSE LET m == CHOOSE y \in ys : \A z \in ys : z <= y
         IN  <<m>> \o sortDescending(ys \ {m})

\* the texts of the items, in order
RECURSIVE texts(_)
texts(items) == IF Len(items) = 0 THEN <<>> ELSE <<items[1].str>> \o texts(Tail(items))

\* a grouper that collects the items of a key by the floor of y
RECURSIVE itemsAtFloor(_, _)
itemsAtFloor(items, y) ==
    IF Len(items) = 0 THEN <<>>
    ELSE (IF Len(trim(items[1].str)) # 0 /\ items[1].y2 \div 2 = y THEN <<items[1]>> ELSE <<>>)
         \o itemsAtFloor(Tail(items), y)

\* the items of one key, in the order in which forEach pushed them
RECURSIVE itemsAt(_, _)
itemsAt(items, y) ==
    IF Len(items) = 0 THEN <<>>
    ELSE (IF Len(trim(items[1].str)) # 0 /\ round(items[1].y2) = y THEN <<items[1]>> ELSE <<>>)
         \o itemsAt(Tail(items), y)

\* the keys of lineGroups
groupKeys(items) ==
    {round(items[k].y2) : k \in {h \in 1..Len(items) : Len(trim(items[h].str)) # 0}}

\* items.sort(by x).map(item => item.str).join(' ').trim() for each key of ys
RECURSIVE lineTexts(_, _)
lineTexts(items, ys) ==
    IF Len(ys) = 0 THEN <<>>
    ELSE <<trim(join(texts(sortByX(itemsAt(items, ys[1])))))>> \o lineTexts(items, Tail(ys))

\* lines.filter(line => line.length > 0)
RECURSIVE nonEmpty(_)
nonEmpty(ls) ==
    IF Len(ls) = 0 THEN <<>>
    ELSE (IF Len(ls[1]) > 0 THEN <<ls[1]>> ELSE <<>>) \o nonEmpty(Tail(ls))

\* part_003 lines 237-264: the lines one page adds to allLines
groupPage(items) == nonEmpty(lineTexts(items, sortDescending(groupKeys(items))))

\* rbcPdfParser.ts lines 31-45: sortedLines of one page
sortedLines(items) == lineTexts(items, sortDescending(groupKeys(items)))

\* the fragments of the first n pages, as if they were one page
RECURSIVE fragmentsUpTo(_, _)
fragmentsUpTo(doc, n) == IF n = 0 THEN <<>> ELSE fragmentsUpTo(doc, n - 1) \o doc[n]

\* an extractTextFromPdf that groups the fragments of all pages so far together
Grp_PageMerged ==
    /\ pc = "grp_page"
    /\ pageNum <= Len(pages)
    /\ lines' = groupPage(fragmentsUpTo(pages, pageNum))
    /\ pageNum' = pageNum + 1
    /\ UNCHANGED <<pages, pc>>
    /\ UNCHANGED segVars

\* part_003 lines 233-265: one page of extractTextFromPdf
Grp_Page ==
    /\ pc = "grp_page"
    /\ pageNum <= Len(pages)
    /\ lines' = lines \o groupPage(pages[pageNum])
    /\ pageNum' = pageNum + 1
    /\ UNCHANGED <<pages, pc>>
    /\ UNCHANGED segVars

\* part_003 line 267
Grp_Return ==
    /\ pc = "grp_page"
    /\ pageNum > Len(pages)
    /\ pc' = "grp_done"
    /\ UNCHANGED <<steps, verdicts, ui, metadata, calls, pages, pageNum, lines>>
    /\ UNCHANGED segVars

\* rbcPdfParser.ts lines 27-48: one page of extractLines
Ext_Page ==
    /\ pc = "ext_page"
    /\ pageNum <= Len(pages)
    /\ lines' = lines \o sortedLines(pages[pageNum])
    /\ pageNum' = pageNum + 1
    /\ UNCHANGED <<pages, pc>>
    /\ UNCHANGED segVars

\* rbcPdfParser.ts line 50
Ext_Return ==
    /\ pc = "ext_page"
    /\ pageNum > Len(pages)
    /\ lines' = nonEmpty(lines)
    /\ pc' = "ext_done"
    /\ UNCHANGED <<steps, verdicts, ui, metadata, calls, pages, pageNum>>
    /\ UNCHANGED segVars

GrpNext == \/ Grp_Page
           \/ Grp_Return
           \/ Ext_Page
           \/ Ext_Return

(***************************************************************************)
(* Row-based segmenter (static RBCPdfParser.parseTransactions): the line   *)
(* classifiers.                                                            *)
(***************************************************************************)
\* /^(\d{1,2}\s+\w{3})/ : the text of group 1, "" when the line does not match
dateMatch(line) ==
    LET d  == IF ~IsDigit(Ch(line, 1)) THEN 0 ELSE IF IsDigit(Ch(line, 2)) THEN 2 ELSE 1
        ws == {p \in (d + 1)..Len(line) : \A q \in (d + 1)..p : IsSpace(Ch(line, q))}
        e  == d + Cardinality(ws)
    IN  IF d = 0 \/ ws = {} THEN ""
        ELSE IF IsWordCh(Ch(line, e + 1)) /\ IsWordCh(Ch(line, e + 2)) /\ IsWordCh(Ch(line, e + 3))
             THEN SubSeq(line, 1, e + 3)
             ELSE ""

\* the matches of /\$?(\d{1,3}(?:,\d{3})*(?:\.\d{2})?)/g from position p on, kept when
\* 0.01 < value < 1000000; index is 0-based as in JavaScript
RECURSIVE scanAmounts(_, _)
scanAmounts(text, p) ==
    IF p > Len(text) THEN <<>>
    ELSE LET e == dollarAmountEnd(text, p)
         IN  IF e = 0 THEN scanAmounts(text, p + 1)
             ELSE LET amountText  == SubSeq(text, p, e - 1)
                      amountValue == parseCents(amountText)
                  IN  (IF amountValue > 1 /\ amountValue < 100000000
                       THEN <<[text |-> amountText, value |-> amountValue, index |-> p - 1]>>
                       ELSE <<>>) \o scanAmounts(text, e)

extractAllAmounts(text) == scanAmounts(text, 1)

isDepositTransaction(description) ==
    LET d == toLowerCase(description)
    IN  \/ includes(d, "e-transfer received")
        \/ includes(d, "payroll deposit")
        \/ includes(d, "online banking foreign exchange")
        \/ includes(d, "refund")
        \/ includes(d, "reversal")

isWithdrawalTransaction(description) ==
    LET d == toLowerCase(description)
    IN  \/ includes(d, "e-transfer sent")
        \/ includes(d, "visa debit purchase")
        \/ includes(d, "online banking payment")
        \/ includes(d, "online banking transfer")
        \/ includes(d, "contactless interac purchase")
        \/ includes(d, "atm withdrawal")
        \/ includes(d, "investment")
        \/ includes(d, "to find & save")
        \/ includes(d, "misc payment")

\* /a.*b.*c/ on one line: the parts occur in this order without overlapping
RECURSIVE includesInOrder(_, _)
includesInOrder(s, parts) ==
    IF Len(parts) = 0 THEN TRUE
    ELSE LET p == indexOf(s, parts[1])
         IN  p # 0 /\ includesInOrder(SubSeq(s, p + Len(parts[1]), Len(s)), Tail(parts))

isHeaderLine(line) ==
    LET l == toLowerCase(line)
    IN  \/ includes(l, "royal bank of canada")
        \/ includes(l, "account statement")
        \/ includesInOrder(l, <<"date", "description", "withdrawals", "deposits", "balance">>)
        \/ includes(l, "your account number")
        \/ includes(l, "how to reach us")
        \/ includes(l, "summary of your account")
        \/ includes(l, "rbc advantage banking")
        \/ includes(l, "details of your account activity")

isMetadataLine(line) ==
    LET l == toLowerCase(line)
    IN  \/ includes(l, "please check this account statement")
        \/ includes(l, "registered trade-mark")
        \/ includes(l, "gst registration number")
        \/ includes(l, "important information")
        \/ includes(l, "protect your pin")
        \/ includes(l, "stay informed")
        \/ includes(l, "www.")
        \/ includes(l, "http://")
        \/ includes(l, "https://")

isEndOfTransactions(line) ==
    LET l == toLowerCase(line)
    IN  \/ includes(l, "closing balance")
        \/ includes(l, "please check this account statement")
        \/ includes(l, "important information about your account")
        \/ includes(l, "protect your pin")

\* /^\$?\d{1,3}(?:,\d{3})*(?:\.\d{2})?$/ on the trimmed text
isAmount(text) ==
    LET t == trim(text)
        p == IF Ch(t, 1) = "$" THEN 2 ELSE 1
    IN  amountEnd(t, p) = Len(t) + 1

\* parseFloat(amountStr.replace(/[$,]/g, '')), in cents
parseAmount(amountStr) == parseCents(amountStr)

isContinuationLine(line) ==
    /\ Len(trim(line)) # 0
    /\ dateMatch(line) = ""
    /\ ~(isHeaderLine(line) \/ isMetadataLine(line))

RECURSIVE countContinuationLines(_, _)
countContinuationLines(ls, startIndex) ==
    IF startIndex < Len(ls) /\ isContinuationLine(ls[startIndex + 1])
    THEN 1 + countContinuationLines(ls, startIndex + 1)
    ELSE 0

isTransactionLine(line, date) ==
    /\ Len(trim(line)) # 0
    /\ ~(dateMatch(line) = "" /\ date = "")
    /\ Len(extractAllAmounts(line)) > 0
    /\ ~(isHeaderLine(line) \/ isMetadataLine(line))

\* dateStr.trim().split(/\s+/)
RECURSIVE splitSpaces(_)
splitSpaces(s) ==
    LET t  == trim(s)
        sp == {p \in 1..Len(t) : IsSpace(Ch(t, p))}
    IN  IF Len(t) = 0 THEN <<>>
        ELSE IF sp = {} THEN <<t>>
        ELSE LET p == CHOOSE q \in sp : \A r \in sp : q <= r
             IN  <<SubSeq(t, 1, p - 1)>> \o splitSpaces(SubSeq(t, p + 1, Len(t)))

formatDate(dateStr) ==
    LET parts == splitSpaces(dateStr)
    IN  IF Len(parts) = 2 THEN parts[1] \o " " \o parts[2] ELSE dateStr

(***************************************************************************)
(* Row-based segmenter: one row.  A result that may be null is a sequence  *)
(* of length 0 (null) or 1; so is the optional balance of a transaction.   *)
(***************************************************************************)
\* amounts.forEach(a => description = description.replace(a.text, '').trim())
RECURSIVE removeAmounts(_, _)
removeAmounts(description, amounts) ==
    IF Len(amounts) = 0 THEN description
    ELSE removeAmounts(trim(replaceFirst(description, amounts[1].text)), Tail(amounts))

\* the result record of parseTableColumns
columns(description, withdrawals, deposits, balance) ==
    <<[description |-> description, withdrawals |-> withdrawals,
       deposits |-> deposits, balance |-> balance]>>

parseTableColumns(line, date) ==
    LET workingLine == IF startsWith(line, date)
                       THEN trim(SubSeq(line, Len(date) + 1, Len(line)))
                       ELSE line
        amounts     == extractAllAmounts(workingLine)
        description == removeAmounts(workingLine, amounts)
        n           == Len(amounts)
    IN  IF n = 0 THEN <<>>
        ELSE IF n = 1 THEN
            IF isDepositTransaction(description)
            THEN columns(description, "", amounts[1].text, "")
            ELSE IF isWithdrawalTransaction(description)
            THEN columns(description, amounts[1].text, "", "")
            ELSE columns(description, "", "", amounts[1].text)
        ELSE IF n = 2 THEN
            IF isDepositTransaction(description)
            THEN columns(description, "", amounts[1].text, amounts[2].text)
            ELSE columns(description, amounts[1].text, "", amounts[2].text)
        ELSE
            IF isDepositTransaction(description)
            THEN columns(description, "", amounts[1].text, amounts[n].text)
            ELSE columns(description, amounts[1].text, "", amounts[n].text)

\* the while loop of parseTransactionLine that appends continuation lines
RECURSIVE appendContinuations(_, _, _)
appendContinuations(fullDescription, allLines, nextIndex) ==
    IF nextIndex < Len(allLines) /\ isContinuationLine(allLines[nextIndex + 1])
    THEN LET continuationText == trim(allLines[nextIndex + 1])
         IN  appendContinuations(
                 IF Len(continuationText) # 0 /\ ~isAmount(continuationText)
                 THEN fullDescription \o " " \o continuationText
                 ELSE fullDescription,
                 allLines, nextIndex + 1)
    ELSE fullDescription

\* a parseTransactionLine that forgets the minus sign of a withdrawal
makeTransactionUnsigned(line, date, fullDescription, withdrawals, deposits, balance) ==
    IF Len(deposits) # 0 /\ isAmount(deposits)
    THEN <<[date |-> formatDate(date), description |-> trim(fullDescription),
            amount |-> parseAmount(deposits), type |-> "deposit",
            balance |-> IF Len(balance) # 0 /\ isAmount(balance)
                        THEN <<parseAmount(balance)>> ELSE <<>>,
            rawLine |-> line]>>
    ELSE IF Len(withdrawals) # 0 /\ isAmount(withdrawals)
    THEN <<[date |-> formatDate(date), description |-> trim(fullDescription),
            amount |-> parseAmount(withdrawals), type |-> "withdrawal",
            balance |-> IF Len(balance) # 0 /\ isAmount(balance)
                        THEN <<parseAmount(balance)>> ELSE <<>>,
            rawLine |-> line]>>
    ELSE <<>>

\* lines 436-464 of parseTransactionLine: the amount, the type and the balance
makeTransaction(line, date, fullDescription, withdrawals, deposits, balance) ==
    IF Len(deposits) # 0 /\ isAmount(deposits)
    THEN <<[date |-> formatDate(date), description |-> trim(fullDescription),
            amount |-> parseAmount(deposits), type |-> "deposit",
            balance |-> IF Len(balance) # 0 /\ isAmount(balance)
                        THEN <<parseAmount(balance)>> ELSE <<>>,
            rawLine |-> line]>>
    ELSE IF Len(withdrawals) # 0 /\ isAmount(withdrawals)
    THEN <<[date |-> formatDate(date), description |-> trim(fullDescription),
            amount |-> 0 - parseAmount(withdrawals), type |-> "withdrawal",
            balance |-> IF Len(balance) # 0 /\ isAmount(balance)
                        THEN <<parseAmount(balance)>> ELSE <<>>,
            rawLine |-> line]>>
    ELSE <<>>

\* lines 419-434 of parseTransactionLine, given the result of parseTableColumns
withColumns(parts, line, date, allLines, currentIndex) ==
    IF Len(parts) = 0 THEN <<>>
    ELSE makeTransaction(line, date,
                         appendContinuations(parts[1].description, allLines, currentIndex + 1),
                         parts[1].withdrawals, parts[1].deposits, parts[1].balance)

parseTransactionLine(line, date, allLines, currentIndex) ==
    withColumns(parseTableColumns(line, date), line, date, allLines, currentIndex)

\* a calculateRunningBalances that clears the balances of the list
clearBalances(txns) == [k \in DOMAIN txns |-> [txns[k] EXCEPT !.balance = <<>>]]

\* transactions.map(t => t)
calculateRunningBalances(txns) == [k \in DOMAIN txns |-> txns[k]]

(***************************************************************************)
(* Row-based segmenter: the call parseTransactions(lines).                 *)
(***************************************************************************)
ActivityMarker == "Details of your account activity"

\* the 0-based index of the first line that includes the activity marker, -1 when none
findActivityStart(ls) ==
    LET hits == {j \in 1..Len(ls) : includes(ls[j], ActivityMarker)}
    IN  IF hits = {} THEN 0 - 1 ELSE (CHOOSE j \in hits : \A k \in hits : j <= k) - 1

\* the "skip table headers" loop: the value of i after it
RECURSIVE skipTableHeaders(_, _)
skipTableHeaders(ls, k) ==
    IF k < Len(ls) /\ ~isTransactionLine(ls[k + 1], "")
    THEN IF includes(ls[k + 1], "Opening Balance") THEN k + 1
         ELSE skipTableHeaders(ls, k + 1)
    ELSE k

\* line 379: this.isHeaderLine(line) || this.isMetadataLine(line)
isNonTransactionLine(line) == isHeaderLine(line) \/ isMetadataLine(line)

\* lines 344-359: no line carries the activity marker, the empty list is returned
Row_NoMarker ==
    /\ pc = "row_start"
    /\ findActivityStart(lines) = 0 - 1
    /\ pc' = "row_done"
    /\ UNCHANGED <<lines, i, endIndex, currentDate, transactions, error>>
    /\ UNCHANGED <<steps, verdicts, ui, metadata, calls, pages, pageNum, transactionLines>>

\* lines 350-357: i is set to the line after the activity marker
Row_FindStart ==
    /\ pc = "row_start"
    /\ findActivityStart(lines) # 0 - 1
    /\ i' = findActivityStart(lines) + 1
    /\ pc' = "row_headers"
    /\ UNCHANGED <<lines, endIndex, currentDate, transactions, error>>
    /\ UNCHANGED <<steps, verdicts, ui, metadata, calls, pages, pageNum, transactionLines>>

\* lines 361-368
Row_SkipHeaders ==
    /\ pc = "row_headers"
    /\ i' = skipTableHeaders(lines, i)
    /\ pc' = "row_scan"
    /\ UNCHANGED <<lines, endIndex, currentDate, transactions, error>>
    /\ UNCHANGED <<steps, verdicts, ui, metadata, calls, pages, pageNum, transactionLines>>

\* lines 370-376 and 405: the loop ends at the end of input or at an end marker
Row_Return ==
    /\ pc = "row_scan"
    /\ IF i < Len(lines) THEN isEndOfTransactions(lines[i + 1]) ELSE TRUE
    /\ transactions' = calculateRunningBalances(transactions)
    /\ pc' = "row_done"
    /\ UNCHANGED <<lines, i, endIndex, currentDate, error>>
    /\ UNCHANGED <<steps, verdicts, ui, metadata, calls, pages, pageNum, transactionLines>>

\* a skip of a header or metadata line that continues without advancing the index
Row_SkipNonTransactionStay ==
    /\ pc = "row_scan"
    /\ i < Len(lines)
    /\ ~isEndOfTransactions(lines[i + 1])
    /\ isNonTransactionLine(lines[i + 1])
    /\ i' = i
    /\ UNCHANGED <<lines, endIndex, currentDate, transactions, error, pc>>
    /\ steps' = steps + 1
    /\ UNCHANGED <<verdicts, ui, metadata, calls, pages, pageNum, transactionLines>>

\* lines 378-382
Row_SkipNonTransaction ==
    /\ pc = "row_scan"
    /\ i < Len(lines)
    /\ ~isEndOfTransactions(lines[i + 1])
    /\ isNonTransactionLine(lines[i + 1])
    /\ i' = i + 1
    /\ UNCHANGED <<lines, endIndex, currentDate, transactions, error, pc>>
    /\ steps' = steps + 1
    /\ UNCHANGED <<verdicts, ui, metadata, calls, pages, pageNum, transactionLines>>

\* lines 384-402: one row of the activity table
Row_Line ==
    /\ pc = "row_scan"
    /\ i < Len(lines)
    /\ ~isEndOfTransactions(lines[i + 1])
    /\ ~isNonTransactionLine(lines[i + 1])
    /\ LET line == lines[i + 1]
           m    == dateMatch(line)
           date == IF m # "" THEN m ELSE currentDate
           t    == IF date # "" /\ isTransactionLine(line, date)
                   THEN parseTransactionLine(line, date, lines, i)
                   ELSE <<>>
       IN  /\ currentDate' = date
           /\ transactions' = transactions \o t
           /\ i' = IF Len(t) > 0 THEN i + countContinuationLines(lines, i + 1) + 1 ELSE i + 1
    /\ UNCHANGED <<lines, endIndex, error, pc>>
    /\ steps' = steps + 1
    /\ UNCHANGED <<verdicts, ui, metadata, calls, pages, pageNum, transactionLines>>

RowNext == \/ Row_NoMarker
           \/ Row_FindStart
           \/ Row_SkipHeaders
           \/ Row_Return
           \/ Row_SkipNonTransaction
           \/ Row_Line

(***************************************************************************)
(* Token-scan segmenter (instance methods isDate ... parseTransactions).   *)
(***************************************************************************)
\* /^\d{1,2} \w{3}$/
isDate(text) ==
    LET d == IF ~IsDigit(Ch(text, 1)) THEN 0 ELSE IF IsDigit(Ch(text, 2)) THEN 2 ELSE 1
    IN  /\ d # 0
        /\ Len(text) = d + 4
        /\ Ch(text, d + 1) = " "
        /\ IsWordCh(Ch(text, d + 2)) /\ IsWordCh(Ch(text, d + 3)) /\ IsWordCh(Ch(text, d + 4))

\* /^<prefix>\d+/
startsWithThenDigit(text, prefix) == startsWith(text, prefix) /\ IsDigit(Ch(text, Len(prefix) + 1))

\* /^<prefix>[A-Z]/
startsWithThenUpper(text, prefix) == startsWith(text, prefix) /\ Ch(text, Len(prefix) + 1) \in Upper

isTransactionDescription(text) ==
    \/ startsWith(text, "e-Transfer received") \/ startsWith(text, "e-Transfer sent")
    \/ startsWithThenDigit(text, "Visa Debit purchase - ")
    \/ startsWithThenDigit(text, "Online Banking transfer - ")
    \/ startsWithThenDigit(text, "Online Banking payment - ")
    \/ startsWithThenDigit(text, "Online Banking foreign exchange - ")
    \/ startsWithThenUpper(text, "Payroll Deposit ")
    \/ text = "to Find & Save"
    \/ startsWithThenUpper(text, "Investment ")
    \/ startsWithThenDigit(text, "Contactless Interac purchase - ")
    \/ startsWithThenDigit(text, "ATM withdrawal - ")
    \/ startsWithThenUpper(text, "Misc Payment ")
    \/ startsWith(text, "Cash withdrawal BR TO BR")

isReferenceCode(text, previousItem) ==
    /\ includes(previousItem, "e-Transfer received") \/ includes(previousItem, "e-Transfer sent")
    /\ Len(text) >= 6 /\ Len(text) <= 8
    /\ \A p \in 1..Len(text) : IsAlnum(Ch(text, p))
    /\ text # toLowerCase(text)
    /\ text # toUpperCase(text)

\* the token-scan isAmount: 0.01 <= value <= 50000
isAmountToken(text) ==
    /\ amountEnd(text, 1) = Len(text) + 1
    /\ parseCents(text) >= 1
    /\ parseCents(text) <= 5000000

\* an isLikelyBalance whose threshold includes 1000
isLikelyBalanceFromThreshold(text) ==
    /\ amountEnd(text, 1) = Len(text) + 1
    /\ parseCents(text) >= 100000
    /\ parseCents(text) <= 5000000
    /\ includes(text, ",")

isLikelyBalance(text) ==
    /\ isAmountToken(text)
    /\ parseCents(text) > 100000
    /\ includes(text, ",")

\* the index after the first item equal to "Opening Balance", -1 when none (0-based)
findTransactionStartIndex(items) ==
    LET hits == {k \in 1..Len(items) : items[k] = "Opening Balance"}
    IN  IF hits = {} THEN 0 - 1 ELSE CHOOSE k \in hits : \A h \in hits : k <= h

\* for startIndex >= 0: the 0-based index of the first item from startIndex on that
\* includes the end marker, items.length when none
findTransactionEndIndex(items, startIndex) ==
    LET hits == {k \in (startIndex + 1)..Len(items) :
                    includes(items[k], "Please check this Account Statement")}
    IN  IF hits = {} THEN Len(items) ELSE (CHOOSE k \in hits : \A h \in hits : k <= h) - 1

isDepositType(description) ==
    \/ includes(description, "e-Transfer received")
    \/ includes(description, "Payroll Deposit")
    \/ includes(description, "Online Banking foreign exchange")
    \/ includes(description, "refund")
    \/ includes(description, "reversal")

isWithdrawalType(description) ==
    \/ includes(description, "e-Transfer sent")
    \/ includes(description, "Visa Debit purchase")
    \/ includes(description, "Online Banking payment")
    \/ includes(description, "Online Banking transfer")
    \/ includes(description, "to Find & Save")
    \/ includes(description, "Investment")
    \/ includes(description, "Contactless Interac purchase")
    \/ includes(description, "ATM withdrawal")
    \/ includes(description, "Misc Payment")

\* a lookahead loop that takes the first amount token as the amount, balance-like or not
RECURSIVE lookAheadAnyAmount(_, _, _, _, _, _)
lookAheadAnyAmount(items, description, j, stop, amount, balance) ==
    IF j >= stop THEN <<amount, balance>>
    ELSE LET item  == items[j + 1]
             value == parseCents(item)
             a == IF isAmountToken(item) /\ amount = 0
                  THEN IF isDepositType(description) THEN value ELSE 0 - value
                  ELSE amount
             b == IF isAmountToken(item) /\ isLikelyBalance(item) THEN <<value>> ELSE balance
         IN  IF isDate(item) \/ isTransactionDescription(item)
             THEN <<a, b>>
             ELSE lookAheadAnyAmount(items, description, j + 1, stop, a, b)

\* the lookahead loop of parseTransaction from j (0-based) up to, not including, stop:
\* the pair <<amount, balance>> it leaves
RECURSIVE lookAhead(_, _, _, _, _, _)
lookAhead(items, description, j, stop, amount, balance) ==
    IF j >= stop THEN <<amount, balance>>
    ELSE LET item  == items[j + 1]
             value == parseCents(item)
             a == IF isAmountToken(item) /\ ~isLikelyBalance(item) /\ amount = 0
                  THEN IF isDepositType(description) THEN value ELSE 0 - value
                  ELSE amount
             b == IF isAmountToken(item) /\ isLikelyBalance(item) THEN <<value>> ELSE balance
         IN  IF isDate(item) \/ isTransactionDescription(item)
             THEN <<a, b>>
             ELSE lookAhead(items, description, j + 1, stop, a, b)

Min(a, b) == IF a < b THEN a ELSE b

\* items.slice(from, to).join(' | '), 0-based
RECURSIVE joinBar(_, _, _)
joinBar(items, from, to) ==
    IF from >= to THEN ""
    ELSE IF from + 1 = to THEN items[from + 1]
    ELSE items[from + 1] \o " | " \o joinBar(items, from + 1, to)

\* a parseTransaction whose lookahead runs to the end of the items
parseTransactionUnbounded(items, startIndex, date) ==
    LET opener      == items[startIndex + 1]
        hasRef      == startIndex + 1 < Len(items)
                       /\ isReferenceCode(items[startIndex + 2], opener)
        description == IF hasRef THEN opener \o " " \o items[startIndex + 2] ELSE opener
        k           == IF hasRef THEN startIndex + 2 ELSE startIndex + 1
        found       == lookAhead(items, description, k, Len(items), 0, <<>>)
        amount      == found[1]
    IN  IF amount = 0 THEN <<>>
        ELSE <<[date |-> date, description |-> description, amount |-> amount,
                type |-> IF amount > 0 THEN "deposit" ELSE "withdrawal",
                balance |-> found[2],
                rawLine |-> joinBar(items, startIndex, k),
                nextIndex |-> k]>>

parseTransaction(items, startIndex, date) ==
    LET opener      == items[startIndex + 1]
        hasRef      == startIndex + 1 < Len(items)
                       /\ isReferenceCode(items[startIndex + 2], opener)
        description == IF hasRef THEN opener \o " " \o items[startIndex + 2] ELSE opener
        k           == IF hasRef THEN startIndex + 2 ELSE startIndex + 1
        found       == lookAhead(items, description, k, Min(k + 5, Len(items)), 0, <<>>)
        amount      == found[1]
    IN  IF amount = 0 THEN <<>>
        ELSE <<[date |-> date, description |-> description, amount |-> amount,
                type |-> IF amount > 0 THEN "deposit" ELSE "withdrawal",
                balance |-> found[2],
                rawLine |-> joinBar(items, startIndex, k),
                nextIndex |-> k]>>

TypeErrorMessage == "TypeError: Cannot read properties of undefined (reading 'includes')"

StartMarkerMessage == "Could not find transaction start marker"

\* lines 981-990: the indices are computed before startIndex is tested, and
\* findTransactionEndIndex(items, -1) reads items[-1].includes
Tok_Start ==
    /\ pc = "tok_start"
    /\ LET startIndex == findTransactionStartIndex(lines)
       IN  IF startIndex = 0 - 1
           THEN /\ error' = TypeErrorMessage
                /\ pc' = "tok_done"
                /\ UNCHANGED <<i, endIndex>>
           ELSE /\ i' = startIndex
                /\ endIndex' = findTransactionEndIndex(lines, startIndex)
                /\ pc' = "tok_scan"
                /\ error' = error
    /\ UNCHANGED <<lines, currentDate, transactions>>
    /\ UNCHANGED <<steps, verdicts, ui, metadata, calls, pages, pageNum, transactionLines>>

\* line 905, 930: the loop of groupTransactions ends
Tok_Return ==
    /\ pc = "tok_scan"
    /\ i >= endIndex
    /\ pc' = "tok_done"
    /\ UNCHANGED <<lines, i, endIndex, currentDate, transactions, error>>
    /\ UNCHANGED <<steps, verdicts, ui, metadata, calls, pages, pageNum, transactionLines>>

\* lines 909-914
Tok_Date ==
    /\ pc = "tok_scan"
    /\ i < endIndex
    /\ isDate(trim(lines[i + 1]))
    /\ currentDate' = trim(lines[i + 1])
    /\ i' = i + 1
    /\ UNCHANGED <<lines, endIndex, transactions, error, pc>>
    /\ steps' = steps + 1
    /\ UNCHANGED <<verdicts, ui, metadata, calls, pages, pageNum, transactionLines>>

\* lines 916-924
Tok_Description ==
    /\ pc = "tok_scan"
    /\ i < endIndex
    /\ ~isDate(trim(lines[i + 1]))
    /\ isTransactionDescription(trim(lines[i + 1]))
    /\ LET t == parseTransaction(lines, i, currentDate)
       IN  IF Len(t) > 0
           THEN /\ transactions' = Append(transactions, t[1])
                /\ i' = t[1].nextIndex
           ELSE /\ transactions' = transactions
                /\ i' = i + 1
    /\ UNCHANGED <<lines, endIndex, currentDate, error, pc>>
    /\ steps' = steps + 1
    /\ UNCHANGED <<verdicts, ui, metadata, calls, pages, pageNum, transactionLines>>

\* lines 907 and 925-927: a blank item or an item that is neither date nor opener
Tok_Skip ==
    /\ pc = "tok_scan"
    /\ i < endIndex
    /\ ~isDate(trim(lines[i + 1]))
    /\ ~isTransactionDescription(trim(lines[i + 1]))
    /\ i' = i + 1
    /\ UNCHANGED <<lines, endIndex, currentDate, transactions, error, pc>>
    /\ steps' = steps + 1
    /\ UNCHANGED <<verdicts, ui, metadata, calls, pages, pageNum, transactionLines>>

TokNext == \/ Tok_Start
           \/ Tok_Return
           \/ Tok_Date
           \/ Tok_Description
           \/ Tok_Skip

(***************************************************************************)
(* Front-end line-based parser (frontend/src/lib/rbcPdfParser.ts).         *)
(***************************************************************************)
\* /\b\d{1,3}(?:,\d{3})*\.\d{2}\b/ at p: the position after the match, 0 when none.
\* No shorter choice of digits or groups can match: the next character would
\* have to be ',' or '.' where the greedy choice found a digit or a group.
feAmountEnd(s, p) ==
    LET d == digits13End(s, p)
        g == IF d = 0 THEN 0 ELSE groupsEnd(s, d)
    IN  IF /\ d # 0
           /\ ~IsWordCh(Ch(s, p - 1))
           /\ Ch(s, g) = "." /\ IsDigit(Ch(s, g + 1)) /\ IsDigit(Ch(s, g + 2))
           /\ ~IsWordCh(Ch(s, g + 3))
        THEN g + 3
        ELSE 0

\* line.match(/\b\d{1,3}(?:,\d{3})*\.\d{2}\b/g): the matched texts from p on
RECURSIVE feMatchAmounts(_, _)
feMatchAmounts(s, p) ==
    IF p > Len(s) THEN <<>>
    ELSE LET e == feAmountEnd(s, p)
         IN  IF e = 0 THEN feMatchAmounts(s, p + 1)
             ELSE <<SubSeq(s, p, e - 1)>> \o feMatchAmounts(s, e)

\* line.replace(/\b\d{1,3}(?:,\d{3})*\.\d{2}\b/g, ''): the text from p on without the matches
RECURSIVE feRemoveAmounts(_, _)
feRemoveAmounts(s, p) ==
    IF p > Len(s) THEN ""
    ELSE LET e == feAmountEnd(s, p)
         IN  IF e = 0 THEN Ch(s, p) \o feRemoveAmounts(s, p + 1)
             ELSE feRemoveAmounts(s, e)

\* /^(\d{1,2} \w{3})/ : the text of group 1, "" when the line does not match
feDateMatch(line) ==
    LET d == IF ~IsDigit(Ch(line, 1)) THEN 0 ELSE IF IsDigit(Ch(line, 2)) THEN 2 ELSE 1
    IN  IF /\ d # 0
           /\ Ch(line, d + 1) = " "
           /\ IsWordCh(Ch(line, d + 2)) /\ IsWordCh(Ch(line, d + 3)) /\ IsWordCh(Ch(line, d + 4))
        THEN SubSeq(line, 1, d + 4)
        ELSE ""

\* /^\d+ of \d+$/
RECURSIVE digitsEnd(_, _)
digitsEnd(s, p) == IF IsDigit(Ch(s, p)) THEN digitsEnd(s, p + 1) ELSE p

isPageNumbering(line) ==
    LET a == digitsEnd(line, 1)
        b == digitsEnd(line, a + 4)
    IN  /\ a > 1
        /\ a + 3 <= Len(line)
        /\ SubSeq(line, a, a + 3) = " of "
        /\ b > a + 4
        /\ b = Len(line) + 1

\* Array.prototype.slice(from, to) with from >= 0; a negative to counts from the end
slice(ls, from, to) ==
    LET e == IF to < 0 THEN (IF Len(ls) + to < 0 THEN 0 ELSE Len(ls) + to)
             ELSE Min(to, Len(ls))
    IN  IF from >= e THEN <<>> ELSE SubSeq(ls, from + 1, e)

\* lines.findIndex((line, i) => i > after && line.includes(sub)), 0-based, -1 when none
findIndexAfter(ls, after, sub) ==
    LET hits == {k \in 1..Len(ls) : k - 1 > after /\ includes(ls[k], sub)}
    IN  IF hits = {} THEN 0 - 1 ELSE (CHOOSE k \in hits : \A h \in hits : k <= h) - 1

\* lines.findIndex(line => line.includes(sub)), 0-based, -1 when none
findIndex(ls, sub) ==
    LET hits == {k \in 1..Len(ls) : includes(ls[k], sub)}
    IN  IF hits = {} THEN 0 - 1 ELSE (CHOOSE k \in hits : \A h \in hits : k <= h) - 1

RECURSIVE filterNoise(_)
filterNoise(ls) ==
    IF Len(ls) = 0 THEN <<>>
    ELSE (IF /\ ~includes(ls[1], "Date Description")
             /\ ~includes(ls[1], "continued")
             /\ ~isPageNumbering(ls[1])
             /\ ~includes(ls[1], "RBPDA")
          THEN <<ls[1]>> ELSE <<>>) \o filterNoise(Tail(ls))

getTransactionLines(ls) ==
    LET start == findIndex(ls, ActivityMarker)
        end   == findIndexAfter(ls, start, "Closing Balance")
    IN  filterNoise(slice(ls, start + 1, end))

\* /received|deposit|payroll|refund|reversal|foreign exchange|ref \w+/i
feIsDeposit(description) ==
    LET d == toLowerCase(description)
    IN  \/ includes(d, "received")
        \/ includes(d, "deposit")
        \/ includes(d, "payroll")
        \/ includes(d, "refund")
        \/ includes(d, "reversal")
        \/ includes(d, "foreign exchange")
        \/ \E p \in 1..(Len(d) - 4) : SubSeq(d, p, p + 3) = "ref " /\ IsWordCh(Ch(d, p + 4))

\* lines 88-90: the amount is the last but one number when there are several
RECURSIVE feNums(_)
feNums(amounts) ==
    IF Len(amounts) = 0 THEN <<>> ELSE <<parseCents(amounts[1])>> \o feNums(Tail(amounts))

feDescription(line) ==
    LET d == trim(feRemoveAmounts(line, 1))
        m == feDateMatch(d)
    IN  IF feDateMatch(line) = "" THEN d
        ELSE trim(SubSeq(d, Len(m) + 1, Len(d)))

\* lines 119-128: the transaction pushed for a line that carries amounts
feTransaction(line, date) ==
    LET nums        == feNums(feMatchAmounts(line, 1))
        n           == Len(nums)
        amount      == nums[n - (IF n > 1 THEN 2 ELSE 1) + 1]
        balance     == IF n > 1 THEN <<nums[n]>> ELSE <<>>
        description == feDescription(line)
    IN  [date |-> date, description |-> description,
         amount |-> IF feIsDeposit(description) THEN amount ELSE 0 - amount,
         balance |-> balance]

\* lines 16-19: parseStatement hands the lines between the markers to parseTransactions
Fe_GetTransactionLines ==
    /\ pc = "fe_start"
    /\ transactionLines' = getTransactionLines(lines)
    /\ i' = 0
    /\ pc' = "fe_scan"
    /\ UNCHANGED <<endIndex, currentDate, transactions, error>>
    /\ UNCHANGED <<steps, verdicts, ui, metadata, calls, pages, pageNum, lines>>

\* lines 68, 131
Fe_Return ==
    /\ pc = "fe_scan"
    /\ i >= Len(transactionLines)
    /\ pc' = "fe_done"
    /\ UNCHANGED <<transactionLines, i, endIndex, currentDate, transactions, error>>
    /\ UNCHANGED <<steps, verdicts, ui, metadata, calls, pages, pageNum, lines>>

\* lines 69-87: a line without amounts only updates the date ("if (!amounts) continue")
Fe_NoAmounts ==
    /\ pc = "fe_scan"
    /\ i < Len(transactionLines)
    /\ Len(feMatchAmounts(transactionLines[i + 1], 1)) = 0
    /\ currentDate' = IF feDateMatch(transactionLines[i + 1]) # "" THEN feDateMatch(transactionLines[i + 1])
                      ELSE currentDate
    /\ i' = i + 1
    /\ UNCHANGED <<transactionLines, endIndex, transactions, error, pc>>
    /\ UNCHANGED <<steps, verdicts, ui, metadata, calls, pages, pageNum, lines>>

\* lines 69-128 for a line with amounts; the continuation branch of lines 93-117
\* tests !amounts after the continue of line 87 and is never entered
Fe_Line ==
    /\ pc = "fe_scan"
    /\ i < Len(transactionLines)
    /\ Len(feMatchAmounts(transactionLines[i + 1], 1)) # 0
    /\ LET line == transactionLines[i + 1]
           date == IF feDateMatch(line) # "" THEN feDateMatch(line) ELSE currentDate
       IN  /\ currentDate' = date
           /\ transactions' = Append(transactions, feTransaction(line, date))
    /\ i' = i + 1
    /\ UNCHANGED <<transactionLines, endIndex, error, pc>>
    /\ UNCHANGED <<steps, verdicts, ui, metadata, calls, pages, pageNum, lines>>

FeNext == \/ Fe_GetTransactionLines
          \/ Fe_Return
          \/ Fe_NoAmounts
          \/ Fe_Line

(***************************************************************************)
(* Statement summary (static RBCPdfParser.extractStatementMetadata).       *)
(***************************************************************************)
\* the first position from p on that holds no white space
spacesEnd(s, p) ==
    LET rest == {q \in p..Len(s) : ~IsSpace(Ch(s, q))}
    IN  IF rest = {} THEN Len(s) + 1 ELSE CHOOSE q \in rest : \A r \in rest : q <= r

\* \s+to\s+(.+?)$ at p, l in lower case: the position where the text after 'to' starts,
\* 0 when there is no match
toAt(l, p) ==
    LET w == spacesEnd(l, p)
    IN  IF w > p /\ Ch(l, w) = "t" /\ Ch(l, w + 1) = "o" /\ IsSpace(Ch(l, w + 2))
           /\ w + 3 <= Len(l)
        THEN w + 2 ELSE 0

\* the ends b of a first group (.+?) that starts at a
groupOneEnds(l, a) == {b \in a..Len(l) : toAt(l, b + 1) # 0}

\* From\s+ at p: the starts of the first group the engine tries, \s+ taking at least
\* one white space
groupOneStarts(l, p) ==
    IF Ch(l, p) = "f" /\ Ch(l, p + 1) = "r" /\ Ch(l, p + 2) = "o" /\ Ch(l, p + 3) = "m"
       /\ IsSpace(Ch(l, p + 4))
    THEN {a \in (p + 5)..spacesEnd(l, p + 4) : groupOneEnds(l, a) # {}}
    ELSE {}

\* the groups of the match that starts at p: \s+ is greedy, (.+?) is lazy
periodGroups(line, l, p) ==
    LET a == CHOOSE x \in groupOneStarts(l, p) : \A y \in groupOneStarts(l, p) : x >= y
        b == CHOOSE x \in groupOneEnds(l, a) : \A y \in groupOneEnds(l, a) : x <= y
    IN  [from |-> trim(SubSeq(line, a, b)),
         to   |-> trim(SubSeq(line, toAt(l, b + 1), Len(line)))]

\* line.match(/From\s+(.+?)\s+to\s+(.+?)$/i) with both groups trimmed: null is <<>>
periodMatch(line) ==
    LET l      == toLowerCase(line)
        starts == {p \in 1..Len(l) : groupOneStarts(l, p) # {}}
    IN  IF starts = {} THEN <<>>
        ELSE <<periodGroups(line, l, CHOOSE p \in starts : \A q \in starts : p <= q)>>

\* the period of the first line that matches, { from: '', to: '' } when none does
RECURSIVE findPeriod(_, _)
findPeriod(ls, k) ==
    IF k > Len(ls) THEN [from |-> "", to |-> ""]
    ELSE IF periodMatch(ls[k]) # <<>> THEN periodMatch(ls[k])[1]
    ELSE findPeriod(ls, k + 1)

\* an extractAmount that takes the last match of the pattern
extractLastAmount(text) ==
    LET hits == {p \in 1..Len(text) : dollarAmountEnd(text, p) # 0}
    IN  IF hits = {} THEN <<>>
        ELSE LET p == CHOOSE x \in hits : \A y \in hits : x >= y
             IN  <<parseCents(SubSeq(text, p, dollarAmountEnd(text, p) - 1))>>

\* extractAmount: parseFloat of the first match of /\$?(\d{1,3}(?:,\d{3})*(?:\.\d{2})?)/,
\* in cents; null is <<>>
extractAmount(text) ==
    LET hits == {p \in 1..Len(text) : dollarAmountEnd(text, p) # 0}
    IN  IF hits = {} THEN <<>>
        ELSE LET p == CHOOSE x \in hits : \A y \in hits : x <= y
             IN  <<parseCents(SubSeq(text, p, dollarAmountEnd(text, p) - 1))>>

\* if (marked) { amount = extractAmount(line); if (amount !== null) field = amount }
amountIf(marked, line, old) ==
    IF marked /\ extractAmount(line) # <<>> THEN extractAmount(line)[1] ELSE old

AccountNumber == "05172-5122270"

\* the values of the fields before the loops assign them
emptyMetadata ==
    [accountNumber |-> "", period |-> [from |-> "", to |-> ""], openingBalance |-> 0,
     closingBalance |-> 0, totalDeposits |-> 0, totalWithdrawals |-> 0]

\* the account number, the period loop and the initial values of the balances
Meta_Period ==
    /\ pc = "meta_start"
    /\ metadata' = [emptyMetadata EXCEPT !.accountNumber = AccountNumber,
                                         !.period = findPeriod(lines, 1)]
    /\ i' = 0
    /\ pc' = "meta_scan"
    /\ UNCHANGED <<steps, verdicts, ui, calls, pages, pageNum, lines, transactionLines, endIndex, currentDate,
                   transactions, error>>

\* one line of the balance loop
Meta_Line ==
    /\ pc = "meta_scan"
    /\ i < Len(lines)
    /\ metadata' =
         [metadata EXCEPT
            !.openingBalance =
                amountIf(includes(lines[i + 1], "Your opening balance on")
                         \/ includes(lines[i + 1], "Opening Balance"), lines[i + 1], @),
            !.closingBalance =
                amountIf(includes(lines[i + 1], "Your closing balance")
                         \/ includes(lines[i + 1], "Closing Balance"), lines[i + 1], @),
            !.totalDeposits =
                amountIf(includes(lines[i + 1], "Total deposits"), lines[i + 1], @),
            !.totalWithdrawals =
                amountIf(includes(lines[i + 1], "Total withdrawals"), lines[i + 1], @)]
    /\ i' = i + 1
    /\ UNCHANGED <<steps, verdicts, ui, calls, pages, pageNum, lines, transactionLines, endIndex, currentDate,
                   transactions, error, pc>>

Meta_Return ==
    /\ pc = "meta_scan"
    /\ i >= Len(lines)
    /\ pc' = "meta_done"
    /\ UNCHANGED <<steps, verdicts, ui, calls, pages, pageNum, lines, transactionLines, i, endIndex, currentDate,
                   transactions, error, metadata>>

MetaNext == \/ Meta_Period
            \/ Meta_Line
            \/ Meta_Return

(***************************************************************************)
(* Concurrent calls of the front end's parseStatement.  A call suspends    *)
(* at its awaits, once per page; the locals of a call (allLines, and the   *)
(* currentDate and transactions of parseTransactions) are created by the   *)
(* call.  parseTransactions has no await and runs to completion.           *)
(***************************************************************************)
\* the loop of parseTransactions from line k on
RECURSIVE feParse(_, _, _, _)
feParse(ls, k, date, acc) ==
    IF k >= Len(ls) THEN acc
    ELSE feParse(ls, k + 1,
                 IF feDateMatch(ls[k + 1]) # "" THEN feDateMatch(ls[k + 1]) ELSE date,
                 IF Len(feMatchAmounts(ls[k + 1], 1)) = 0 THEN acc
                 ELSE Append(acc, feTransaction(ls[k + 1],
                                   IF feDateMatch(ls[k + 1]) # "" THEN feDateMatch(ls[k + 1])
                                   ELSE date)))

CallIds == {1, 2}

\* a call whose page step appends to the allLines of call 1
Conc_PageShared(c) ==
    /\ pc = "conc"
    /\ calls[c].pc = "page"
    /\ calls[c].pageNum <= Len(calls[c].pages)
    /\ calls' = [[calls EXCEPT ![c].pageNum = @ + 1]
                    EXCEPT ![1].allLines = @ \o sortedLines(calls[c].pages[calls[c].pageNum])]
    /\ UNCHANGED <<steps, verdicts, ui, pages, pageNum, lines, transactionLines, i, endIndex, currentDate,
                   transactions, error, metadata, pc>>

\* rbcPdfParser.ts lines 27-48: call c resumes and groups its next page
Conc_Page(c) ==
    /\ pc = "conc"
    /\ calls[c].pc = "page"
    /\ calls[c].pageNum <= Len(calls[c].pages)
    /\ calls' = [calls EXCEPT ![c].pageNum = @ + 1,
                              ![c].allLines = @ \o sortedLines(calls[c].pages[calls[c].pageNum])]
    /\ UNCHANGED <<steps, verdicts, ui, pages, pageNum, lines, transactionLines, i, endIndex, currentDate,
                   transactions, error, metadata, pc>>

\* rbcPdfParser.ts lines 50 and 16-19: call c filters its lines and parses them
Conc_Return(c) ==
    /\ pc = "conc"
    /\ calls[c].pc = "page"
    /\ calls[c].pageNum > Len(calls[c].pages)
    /\ calls' = [calls EXCEPT
                   ![c].allLines = nonEmpty(@),
                   ![c].transactions =
                       feParse(getTransactionLines(nonEmpty(calls[c].allLines)), 0, "", <<>>),
                   ![c].pc = "done"]
    /\ UNCHANGED <<steps, verdicts, ui, pages, pageNum, lines, transactionLines, i, endIndex, currentDate,
                   transactions, error, metadata, pc>>

ConcNext == \E c \in CallIds : Conc_Page(c) \/ Conc_Return(c)

(***************************************************************************)
(* The token classifiers of the first prototype (part_003 lines 93-112)    *)
(* and a scan that classifies each token of a list with every classifier.  *)
(***************************************************************************)
\* isAmount of the first prototype: 0.01 <= value <= 1000000, and a text of at most 3
\* characters needs a '.'
isAmountProto(text) ==
    /\ amountEnd(text, 1) = Len(text) + 1
    /\ parseCents(text) >= 1
    /\ parseCents(text) <= 100000000
    /\ ~(Len(text) <= 3 /\ ~includes(text, "."))

\* isLikelyBalance of the first prototype
isLikelyBalanceProto(text) ==
    /\ isAmountProto(text)
    /\ parseCents(text) > 100000
    /\ includes(text, ",")

\* what the classifiers say about a token that follows the token previous
classify(text, previous) ==
    [text         |-> text,
     previous     |-> previous,
     amountProto  |-> isAmountProto(text),
     amountTok    |-> isAmountToken(text),
     amountsRow   |-> extractAllAmounts(text),
     balanceProto |-> isLikelyBalanceProto(text),
     balanceTok   |-> isLikelyBalance(text),
     reference    |-> isReferenceCode(text, previous)]

\* the next token is classified
Cls_Token ==
    /\ pc = "cls_scan"
    /\ i < Len(lines)
    /\ verdicts' = Append(verdicts, classify(lines[i + 1], IF i = 0 THEN "" ELSE lines[i]))
    /\ i' = i + 1
    /\ UNCHANGED <<steps, ui, calls, metadata, pages, pageNum, lines, transactionLines, endIndex,
                   currentDate, transactions, error, pc>>

Cls_Return ==
    /\ pc = "cls_scan"
    /\ i >= Len(lines)
    /\ pc' = "cls_done"
    /\ UNCHANGED <<steps, verdicts, ui, calls, metadata, pages, pageNum, lines, transactionLines, i,
                   endIndex, currentDate, transactions, error>>

ClsNext == \/ Cls_Token
           \/ Cls_Return

(***************************************************************************)
(* Upload components: PDFUpload (part_000, part_001) and PdfUpload         *)
(* (src/components/PdfUpload.tsx).  ui holds the React state of one        *)
(* mounted component and the handler calls suspended at an await.          *)
(***************************************************************************)
\* the files the user can choose; "" is no file (null)
Files == {"jan.pdf", "feb.pdf", "mar.pdf", "notes.txt"}

\* file.type
FileType(f) == IF f = "notes.txt" THEN "text/plain" ELSE "application/pdf"

\* the lines of the statements in the PDF files; the statement of mar.pdf has no activity
FileLines(f) ==
    IF f = "jan.pdf"
    THEN <<ActivityMarker, "12 Jan MISC FEE 5.00 95.00", "Closing Balance", "RBPDA">>
    ELSE IF f = "feb.pdf"
    THEN <<ActivityMarker, "13 Feb Payroll Deposit 1,500.00 2,380.00", "Closing Balance", "RBPDA">>
    ELSE IF f = "mar.pdf"
    THEN <<ActivityMarker, "Closing Balance", "RBPDA">>
    ELSE <<>>

\* what a parser call on the file resolves to
ParseResult ==
    [f \in Files |-> feParse(getTransactionLines(FileLines(f)), 0, "", <<>>)]

\* the reasons a parser call or the dynamic import rejects with
FailureMessages == {"Invalid PDF structure.", "Setting up fake worker failed"}

\* the handlers of the components: the parse button of part_000, the three buttons of
\* part_001, the file input of PdfUpload
UiActions(component) ==
    IF component = "part_000" THEN {"parse"}
    ELSE IF component = "part_001" THEN {"extract", "patterns", "parse"}
    ELSE {"upload"}

\* disabled={!selectedFile || isProcessing} of the buttons
buttonDisabled(u) == u.selectedFile = "" \/ u.isProcessing

\* disabled={isProcessing} of the file input; the input of part_000 has no such attribute
inputDisabled(u) == u.component # "part_000" /\ u.isProcessing

\* the state after mounting
mounted(component) ==
    [component    |-> component,
     selectedFile |-> "",
     isProcessing |-> FALSE,
     transactions |-> <<>>,
     shownOf      |-> "",
     error        |-> "",
     pending      |-> <<>>]

\* seq without its k-th element
removeAt(seq, k) == SubSeq(seq, 1, k - 1) \o SubSeq(seq, k + 1, Len(seq))

uiRest == <<steps, verdicts, pages, pageNum, lines, transactionLines, i, endIndex, currentDate,
            transactions, error, metadata, calls, pc>>

\* handleFileChange of part_000 and part_001; f = "" when the dialog is cancelled
Ui_FileChange(f) ==
    /\ pc = "ui"
    /\ ui.component \in {"part_000", "part_001"}
    /\ ~inputDisabled(ui)
    /\ ui' = [ui EXCEPT !.selectedFile = f, !.transactions = <<>>, !.shownOf = "",
                        !.error = IF ui.component = "part_001" THEN "" ELSE @]
    /\ UNCHANGED uiRest

\* handleParseTransactions of part_000 and handleAction of part_001 up to the first await
Ui_Click(action) ==
    /\ pc = "ui"
    /\ ui.component \in {"part_000", "part_001"}
    /\ action \in UiActions(ui.component)
    /\ ~buttonDisabled(ui)
    /\ IF ui.selectedFile = "" THEN UNCHANGED ui
       ELSE IF ui.component = "part_001" /\ FileType(ui.selectedFile) # "application/pdf"
       THEN ui' = [ui EXCEPT !.error = "Please select a PDF file"]
       ELSE ui' = [ui EXCEPT !.isProcessing = TRUE,
                             !.error = IF ui.component = "part_001" THEN "" ELSE @,
                             !.pending = Append(@, [file |-> ui.selectedFile,
                                                    action |-> action, awaits |-> 2])]
    /\ UNCHANGED uiRest

\* handleFileUpload of PdfUpload up to the first await
Ui_Upload(f) ==
    /\ pc = "ui"
    /\ ui.component = "PdfUpload"
    /\ ~inputDisabled(ui)
    /\ IF f = "" THEN UNCHANGED ui
       ELSE IF FileType(f) # "application/pdf"
       THEN ui' = [ui EXCEPT !.error = "Please upload a PDF file"]
       ELSE ui' = [ui EXCEPT !.isProcessing = TRUE, !.error = "", !.transactions = <<>>,
                             !.shownOf = "",
                             !.pending = Append(@, [file |-> f, action |-> "upload",
                                                    awaits |-> 2])]
    /\ UNCHANGED uiRest

\* an awaited promise of the k-th suspended handler resolves: the handler goes on to its
\* second await (the parser call), or from the parser call through the finally block
Ui_Resolve(k) ==
    /\ pc = "ui"
    /\ k \in 1..Len(ui.pending)
    /\ LET call == ui.pending[k]
       IN  IF call.awaits > 1
           THEN ui' = [ui EXCEPT !.pending[k].awaits = @ - 1]
           ELSE /\ FileType(call.file) = "application/pdf"
                /\ ui' = [ui EXCEPT
                            !.transactions = IF call.action \in {"parse", "upload"}
                                             THEN ParseResult[call.file] ELSE @,
                            !.shownOf = IF call.action \in {"parse", "upload"}
                                        THEN call.file ELSE @,
                            !.isProcessing = FALSE,
                            !.pending = removeAt(@, k)]
    /\ UNCHANGED uiRest

\* a catch that leaves isProcessing as it is
Ui_RejectWithoutFinally(k, message) ==
    /\ pc = "ui"
    /\ k \in 1..Len(ui.pending)
    /\ ui' = [ui EXCEPT !.error = message, !.pending = removeAt(@, k)]
    /\ UNCHANGED uiRest

\* an awaited promise of the k-th suspended handler rejects: the catch block, then the
\* finally block
Ui_Reject(k, message) ==
    /\ pc = "ui"
    /\ k \in 1..Len(ui.pending)
    /\ ui' = [ui EXCEPT
                !.error = IF ui.component = "part_000" THEN @
                          ELSE IF ui.component = "part_001"
                          THEN "Error processing PDF: " \o message
                          ELSE "Failed to parse PDF: " \o message,
                !.isProcessing = FALSE,
                !.pending = removeAt(@, k)]
    /\ UNCHANGED uiRest

\* an awaited promise settles
Ui_Settle ==
    /\ pc = "ui"
    /\ \E k \in 1..Len(ui.pending) :
          \/ Ui_Resolve(k)
          \/ \E message \in FailureMessages : Ui_Reject(k, message)

UiNext ==
    \/ \E f \in Files \cup {""} : Ui_FileChange(f)
    \/ \E action \in {"extract", "patterns", "parse"} : Ui_Click(action)
    \/ \E f \in Files \cup {""} : Ui_Upload(f)
    \/ pc = "ui" /\ \E k \in 1..Len(ui.pending) : Ui_Resolve(k)
    \/ pc = "ui" /\ \E k \in 1..Len(ui.pending), message \in FailureMessages :
                      Ui_Reject(k, message)

(***************************************************************************)
(* The inputs.  Every list of strings is a possible list of lines or       *)
(* items, every list of fragments a possible page; Init draws them       *)
(* from the vocabularies below.                                            *)
(***************************************************************************)
MaxLines == 2

MaxItems == 3

MaxFrags == 3

MaxPages == 2

\* the sequences over S of length at most n
RECURSIVE SeqsUpTo(_, _)
SeqsUpTo(S, n) ==
    IF n = 0 THEN {<<>>}
    ELSE LET shorter == SeqsUpTo(S, n - 1)
         IN  shorter \cup {Append(q, x) : q \in {t \in shorter : Len(t) = n - 1}, x \in S}

LineVocab ==
    { "e-Transfer sent ABC123 50.00 900.00",
      "Visa Debit purchase 20.00 880.00",
      "Visa Debit purchase",
      "TIM HORTONS",
      "STORE REFUND DESK",
      "20.00 880.00",
      "e-Transfer received REF12345 100.00 900.00",
      "MISC FEE 5.00",
      "refund Visa Debit purchase 20.00 900.00",
      "13 Feb Payroll Deposit 1,500.00 2,380.00",
      "www.rbc.com",
      "1 of 2",
      "Closing Balance 880.00" }

LinePrefixes ==
    { <<>>,
      <<ActivityMarker>>,
      <<ActivityMarker, "12 Jan">>,
      <<ActivityMarker, "12 Jan", "Visa Debit purchase">> }

LineDocs == {p \o b : p \in LinePrefixes, b \in SeqsUpTo(LineVocab, MaxLines)}

ItemVocab ==
    { "12 Jan",
      "e-Transfer received",
      "AbC123x",
      "100.00",
      "900.00",
      "1,500.00",
      "Cash withdrawal BR TO BR",
      "Visa Debit purchase - 12 refund",
      "TIM HORTONS",
      "Please check this Account Statement" }

ItemPrefixes ==
    { <<>>,
      <<"Opening Balance">>,
      <<"Opening Balance", "12 Jan">>,
      <<"Opening Balance", "12 Jan", "e-Transfer received">>,
      <<"Opening Balance", "12 Jan", "e-Transfer received", "1,000.00">>,
      <<"Opening Balance", "12 Jan", "Cash withdrawal BR TO BR", "TIM HORTONS", "TIM HORTONS",
        "TIM HORTONS">> }

ItemDocs == {p \o b : p \in ItemPrefixes, b \in SeqsUpTo(ItemVocab, MaxItems)}

\* the item lists of the run to the return: the documents of ItemDocs with at most
\* MaxLines items after the prefix
SegItemDocs == {p \o b : p \in ItemPrefixes, b \in SeqsUpTo(ItemVocab, MaxLines)}

Fragments ==
    { [str |-> "A",  x |-> 5, y2 |-> 20],
      [str |-> "B",  x |-> 1, y2 |-> 20],
      [str |-> "C",  x |-> 0, y2 |-> 60],
      [str |-> "D",  x |-> 1, y2 |-> 19],
      [str |-> "E ", x |-> 3, y2 |-> 21],
      [str |-> " ",  x |-> 2, y2 |-> 60] }

MetaVocab ==
    { "From Jan 1 to Jan 31",
      "from   to b",
      "Your opening balance on Jan 1 $1,000.00",
      "Opening Balance",
      "Closing Balance 880.00",
      "Total deposits 1,500.00",
      "Total withdrawals $620.00",
      "Account 05172-5122270",
      "TIM HORTONS" }

MetaPrefixes ==
    { <<>>,
      <<"Statement From January 1, 2024  to  January 31, 2024", "Opening Balance 0.00">> }

MetaDocs == {p \o b : p \in MetaPrefixes, b \in SeqsUpTo(MetaVocab, MaxLines)}

ConcPages ==
    { << [str |-> "Details of your account activity", x |-> 0, y2 |-> 80],
         [str |-> "5.00", x |-> 5, y2 |-> 60],
         [str |-> "12 Jan MISC FEE", x |-> 0, y2 |-> 60] >>,
      << [str |-> "Payroll Deposit 100.00 105.00", x |-> 0, y2 |-> 60],
         [str |-> "Closing Balance", x |-> 0, y2 |-> 40] >>,
      << [str |-> " ", x |-> 0, y2 |-> 70],
         [str |-> "TIM HORTONS 2.00", x |-> 0, y2 |-> 60] >> }

ConcDocs == SeqsUpTo(ConcPages, MaxPages) \ {<<>>}

ClsVocab ==
    { "0", "0.00", "0.01", "0.02", "5.00", "123", "999", "1,000", "1,000.00", "1,000.01",
      "1000.00", "1,500.00", "50,000.00", "50,000.01", "999,999.99", "1,000,000.00",
      "1,000,000.01", "$5.00", "12.5", "AbC123", "AbC123x", "AbCd1234", "AbCdE1234",
      "AbCdEf123456", "AbCdEf1234567", "ABC12345", "abc12345", "Ab-12345", "12 Jan",
      "TIM HORTONS" }

ClsPrevious ==
    { "e-Transfer received", "e-Transfer sent", "Visa Debit purchase - 12",
      "Payroll Deposit ACME", "TIM HORTONS" }

ClsDocs == {<<p, t>> : p \in ClsPrevious, t \in ClsVocab}

\* the documents of exactly n pages that hold at most budget fragments
RECURSIVE PagesOf(_, _)
PagesOf(n, budget) ==
    IF n = 0 THEN {<<>>}
    ELSE UNION { {<<page>> \o rest : rest \in PagesOf(n - 1, budget - Len(page))} :
                 page \in SeqsUpTo(Fragments, budget) }

FragmentDocs == UNION {PagesOf(n, MaxFrags) : n \in 1..MaxPages}

\* a call of extractTextFromPdf or of extractLines on a document
InitGrp ==
    /\ pages \in FragmentDocs
    /\ pc \in {"grp_page", "ext_page"}
    /\ pageNum = 1 /\ lines = <<>> /\ transactionLines = <<>> /\ i = 0 /\ endIndex = 0
    /\ currentDate = "" /\ transactions = <<>> /\ error = "" /\ metadata = emptyMetadata /\ verdicts = <<>> /\ ui = <<>> /\ steps = 0
    /\ calls = <<>>

\* a call of the static parseTransactions(lines)
InitRow ==
    /\ lines \in LineDocs
    /\ pc = "row_start"
    /\ pages = <<>> /\ pageNum = 1 /\ transactionLines = <<>> /\ i = 0 /\ endIndex = 0
    /\ currentDate = "" /\ transactions = <<>> /\ error = "" /\ metadata = emptyMetadata /\ verdicts = <<>> /\ ui = <<>> /\ steps = 0
    /\ calls = <<>>

\* a call of the token-scan parseTransactions, after extractAllTextItems
InitTok ==
    /\ lines \in ItemDocs
    /\ pc = "tok_start"
    /\ pages = <<>> /\ pageNum = 1 /\ transactionLines = <<>> /\ i = 0 /\ endIndex = 0
    /\ currentDate = "" /\ transactions = <<>> /\ error = "" /\ metadata = emptyMetadata /\ verdicts = <<>> /\ ui = <<>> /\ steps = 0
    /\ calls = <<>>

\* a call of the front end's parseStatement, after extractLines
InitFe ==
    /\ lines \in LineDocs
    /\ pc = "fe_start"
    /\ pages = <<>> /\ pageNum = 1 /\ transactionLines = <<>> /\ i = 0 /\ endIndex = 0
    /\ currentDate = "" /\ transactions = <<>> /\ error = "" /\ metadata = emptyMetadata /\ verdicts = <<>> /\ ui = <<>> /\ steps = 0
    /\ calls = <<>>

\* a call of extractStatementMetadata(lines)
InitMeta ==
    /\ lines \in MetaDocs
    /\ pc = "meta_start"
    /\ pages = <<>> /\ pageNum = 1 /\ transactionLines = <<>> /\ i = 0 /\ endIndex = 0
    /\ currentDate = "" /\ transactions = <<>> /\ error = "" /\ metadata = emptyMetadata /\ verdicts = <<>> /\ ui = <<>> /\ steps = 0
    /\ calls = <<>>

\* two calls of the front end's parseStatement, each on a document
InitConc ==
    /\ calls \in [CallIds -> {[pages |-> d, pageNum |-> 1, allLines |-> <<>>,
                               transactions |-> <<>>, pc |-> "page"] : d \in ConcDocs}]
    /\ pc = "conc"
    /\ pages = <<>> /\ pageNum = 1 /\ lines = <<>> /\ transactionLines = <<>> /\ i = 0
    /\ endIndex = 0 /\ currentDate = "" /\ transactions = <<>> /\ error = ""
    /\ metadata = emptyMetadata /\ verdicts = <<>> /\ ui = <<>> /\ steps = 0

\* a list of tokens handed to the classifiers
InitCls ==
    /\ lines \in ClsDocs
    /\ pc = "cls_scan"
    /\ pages = <<>> /\ pageNum = 1 /\ transactionLines = <<>> /\ i = 0 /\ endIndex = 0
    /\ currentDate = "" /\ transactions = <<>> /\ error = ""
    /\ metadata = emptyMetadata /\ verdicts = <<>> /\ ui = <<>> /\ steps = 0
    /\ calls = <<>>

\* one of the upload components, mounted
InitUi ==
    /\ ui \in {mounted(c) : c \in {"part_000", "part_001", "PdfUpload"}}
    /\ pc = "ui"
    /\ lines = <<>>
    /\ pages = <<>> /\ pageNum = 1 /\ transactionLines = <<>> /\ i = 0 /\ endIndex = 0
    /\ currentDate = "" /\ transactions = <<>> /\ error = "" /\ metadata = emptyMetadata
    /\ verdicts = <<>> /\ steps = 0 /\ calls = <<>>

Init == InitGrp \/ InitRow \/ InitTok \/ InitFe \/ InitMeta \/ InitConc \/ InitCls \/ InitUi

Next == GrpNext \/ RowNext \/ TokNext \/ FeNext \/ MetaNext \/ ConcNext \/ ClsNext \/ UiNext

Spec == Init /\ [][Next]_vars

SpecGrp == InitGrp /\ [][GrpNext]_vars

SpecRow == InitRow /\ [][RowNext]_vars

SpecTok == InitTok /\ [][TokNext]_vars

SpecFe == InitFe /\ [][FeNext]_vars

SpecMeta == InitMeta /\ [][MetaNext]_vars

SpecConc == InitConc /\ [][ConcNext]_vars

SpecCls == InitCls /\ [][ClsNext]_vars

SpecUi == InitUi /\ [][UiNext]_vars

\* the browser settles every promise a handler awaits: the import and the parser call
\* end by resolving or by rejecting
SpecUiFair == InitUi /\ [][UiNext]_vars /\ WF_vars(Ui_Settle)

\* the two segmenter loops, run to their return
\* a caller hands the lines of a statement to the row-based parseTransactions
Seg_CallRow ==
    /\ pc = "seg_call"
    /\ lines' \in LineDocs
    /\ pc' = "row_start"
    /\ UNCHANGED <<i, endIndex, currentDate, transactions, error>>
    /\ UNCHANGED <<steps, verdicts, ui, metadata, calls, pages, pageNum, transactionLines>>

\* a caller hands the text items of a statement to the token-scan parseTransactions
Seg_CallTok ==
    /\ pc = "seg_call"
    /\ lines' \in SegItemDocs
    /\ pc' = "tok_start"
    /\ UNCHANGED <<i, endIndex, currentDate, transactions, error>>
    /\ UNCHANGED <<steps, verdicts, ui, metadata, calls, pages, pageNum, transactionLines>>

InitSeg ==
    /\ lines = <<>>
    /\ pc = "seg_call"
    /\ pages = <<>> /\ pageNum = 1 /\ transactionLines = <<>> /\ i = 0 /\ endIndex = 0
    /\ currentDate = "" /\ transactions = <<>> /\ error = "" /\ metadata = emptyMetadata /\ verdicts = <<>> /\ ui = <<>> /\ steps = 0
    /\ calls = <<>>

SegNext == \/ Seg_CallRow
           \/ Seg_CallTok
           \/ RowNext
           \/ TokNext

\* a step of a call that has not returned: it moves to another position of the code or
\* makes one more iteration of the loop
Seg_Step ==
    /\ pc \in {"seg_call", "row_start", "row_headers", "row_scan", "tok_start", "tok_scan"}
    /\ pc' \in {"row_start", "row_headers", "row_scan", "row_done", "tok_start", "tok_scan",
                "tok_done"}
    /\ steps' \in {steps, steps + 1}

\* parseTransactions and groupTransactions are synchronous code without await: a call
\* that has not returned takes its next step
SpecSegFair == InitSeg /\ [][SegNext]_vars /\ WF_<<pc, steps>>(Seg_Step)

(***************************************************************************)
(* Properties of the fragment grouper                                      *)
(***************************************************************************)
\* the positions of the fragments of a page that the grouper keeps for key y
keptAt(items, y) ==
    {h \in 1..Len(items) : Len(trim(items[h].str)) # 0 /\ round(items[h].y2) = y}

\* the rounded y values of the fragments of a page that are not blank
keysOf(items) ==
    {round(items[h].y2) : h \in {g \in 1..Len(items) : Len(trim(items[g].str)) # 0}}

\* the number of lines the pages before page p have produced
RECURSIVE linesBefore(_, _)
linesBefore(doc, p) ==
    IF p <= 1 THEN 0 ELSE linesBefore(doc, p - 1) + Cardinality(keysOf(doc[p - 1]))

\* text is the fragments of positions idx of the page, each once, in an order of
\* ascending x, joined by single spaces and trimmed
isAscendingXLine(items, idx, text) ==
    \E f \in [1..Cardinality(idx) -> idx] :
        /\ \A a, b \in 1..Cardinality(idx) : a < b => f[a] # f[b] /\ items[f[a]].x <= items[f[b]].x
        /\ text = trim(join([k \in 1..Cardinality(idx) |-> items[f[k]].str]))

\* the page of the example: y = [10, 10, 30] with x = [5, 1, 0]
ExamplePage ==
    << [str |-> "A", x |-> 5, y2 |-> 20],
       [str |-> "B", x |-> 1, y2 |-> 20],
       [str |-> "C", x |-> 0, y2 |-> 60] >>

\* C1: the lines of every processed page are one line per distinct rounded y of its
\* non-blank fragments, in strictly descending order of that y, and each line is the
\* texts of the fragments of its y in ascending x order; the page with y = [10, 10, 30]
\* and x = [5, 1, 0] gives exactly the two lines "C" and "B A", in this order.
C1_GrouperOrdering ==
    pc \in {"grp_page", "grp_done", "ext_page", "ext_done"} =>
        /\ Len(lines) = linesBefore(pages, pageNum)
        /\ \A p \in 1..(pageNum - 1) :
             \A y \in keysOf(pages[p]) :
                LET k == 1 + Cardinality({z \in keysOf(pages[p]) : z > y})
                IN  isAscendingXLine(pages[p], keptAt(pages[p], y),
                                     lines[linesBefore(pages, p) + k])
        /\ (pages = <<ExamplePage>> /\ pageNum = 2) => lines = <<"C", "B A">>

\* the example page has been grouped, by either grouper
C1_Witness ==
    /\ pc \in {"grp_done", "ext_done"}
    /\ pages = <<ExamplePage>>
    /\ lines = <<"C", "B A">>

(***************************************************************************)
(* Properties of the row-based segmenter (static parseTransactions)        *)
(***************************************************************************)
\* the rows after the activity marker and one date line, when the document is that
rowsAfterDate(ls) == SubSeq(ls, 3, Len(ls))

\* C2: once the row-based parseTransactions has returned, a document that is the
\* activity marker, the date line "12 Jan" and then rows that each carry an amount and
\* a balance, no date of their own and no end marker has produced one transaction per row, each dated "12 Jan";
\* for the rows 'e-Transfer sent ABC123 50.00 900.00' and 'Visa Debit purchase 20.00
\* 880.00' that is two transactions.
C2_DateStickiness ==
    ( /\ pc = "row_done"
      /\ Len(lines) >= 3
      /\ lines[1] = ActivityMarker
      /\ lines[2] = "12 Jan"
      /\ \A k \in 3..Len(lines) :
            /\ dateMatch(lines[k]) = ""
            /\ isTransactionLine(lines[k], "12 Jan")
            /\ Len(extractAllAmounts(lines[k])) >= 2
            /\ ~isEndOfTransactions(lines[k]) )
    => /\ Len(transactions) = Len(rowsAfterDate(lines))
       /\ \A k \in 1..Len(transactions) : transactions[k].date = "12 Jan"

(***************************************************************************)
(* Properties of the transactions the segmenters emit                      *)
(***************************************************************************)
RowPcs == {"row_start", "row_headers", "row_scan", "row_done"}

TokPcs == {"tok_start", "tok_scan", "tok_done"}

FePcs == {"fe_start", "fe_scan", "fe_done"}

\* C3: every transaction emitted by the row-based parseTransactionLine or by the
\* token-scan parseTransaction has type "deposit" exactly when its amount is positive
\* and type "withdrawal" exactly when its amount is negative, and none has amount 0.
C3_DepositSign ==
    pc \in RowPcs \cup TokPcs =>
        \A k \in 1..Len(transactions) :
            /\ transactions[k].type = "deposit" <=> transactions[k].amount > 0
            /\ transactions[k].type = "withdrawal" <=> transactions[k].amount < 0
            /\ transactions[k].amount # 0

\* the row-based segmenter has returned a withdrawal followed by a deposit
C3_Witness ==
    /\ pc = "row_done"
    /\ Len(transactions) = 2
    /\ transactions[1].type = "withdrawal" /\ transactions[1].amount = 0 - 2000
    /\ transactions[2].type = "deposit" /\ transactions[2].amount = 150000

\* Math.abs on an amount in cents
abs(n) == IF n < 0 THEN 0 - n ELSE n

\* C4: under the date "12 Jan" inside the activity section, the opener line 'Visa Debit
\* purchase' without amount, the merchant line 'TIM HORTONS' and the amount line
\* '20.00 880.00' make the row-based parseTransactions return exactly one transaction
\* whose description holds the opener text and then the merchant text and whose amount
\* is the 20.00 of the third line; the items 'Visa Debit purchase - 12 refund',
\* 'TIM HORTONS', '100.00' do the same in the token-scan parseTransactions.
C4_ContinuationMerge ==
    /\ ( /\ pc = "row_done"
         /\ lines = <<ActivityMarker, "12 Jan", "Visa Debit purchase", "TIM HORTONS",
                      "20.00 880.00">> )
       => /\ Len(transactions) = 1
          /\ includesInOrder(transactions[1].description,
                             <<"Visa Debit purchase", "TIM HORTONS">>)
          /\ abs(transactions[1].amount) = 2000
    /\ ( /\ pc = "tok_done"
         /\ lines = <<"Opening Balance", "12 Jan", "Visa Debit purchase - 12 refund",
                      "TIM HORTONS", "100.00">> )
       => /\ Len(transactions) = 1
          /\ includesInOrder(transactions[1].description,
                             <<"Visa Debit purchase - 12 refund", "TIM HORTONS">>)
          /\ abs(transactions[1].amount) = 10000

\* C5: a row with a description followed by exactly two amounts takes the first amount
\* as the transaction amount and the second as the balance: the row 'e-Transfer received
\* REF12345 100.00 900.00' under the date "12 Jan" is returned by the row-based
\* parseTransactions as one deposit of +100.00 with balance 900.00, and the items
\* 'e-Transfer received', 'AbC123x', '100.00', '900.00' are returned by the token-scan
\* parseTransactions as one deposit of +100.00 with balance 900.00.
C5_TwoAmounts ==
    /\ ( /\ pc = "row_done"
         /\ lines = <<ActivityMarker, "12 Jan", "e-Transfer received REF12345 100.00 900.00">> )
       => /\ Len(transactions) = 1
          /\ transactions[1].amount = 10000
          /\ transactions[1].type = "deposit"
          /\ transactions[1].balance = <<90000>>
    /\ ( /\ pc = "tok_done"
         /\ lines = <<"Opening Balance", "12 Jan", "e-Transfer received", "AbC123x",
                      "100.00", "900.00">> )
       => /\ Len(transactions) = 1
          /\ transactions[1].amount = 10000
          /\ transactions[1].type = "deposit"
          /\ transactions[1].balance = <<90000>>

\* a description that some classifier of the repository takes for the start of a
\* transaction: the phrase lists of the row-based parser, the deposit pattern of the
\* front end, the opener patterns of the token scan
matchesOpener(description) ==
    \/ isDepositTransaction(description)
    \/ isWithdrawalTransaction(description)
    \/ feIsDeposit(description)
    \/ isTransactionDescription(description)

\* no line of the document includes the activity marker
noActivityMarker(ls) == \A k \in 1..Len(ls) : ~includes(ls[k], ActivityMarker)

\* C6: in a document that has its start marker, a row met before any date has been
\* seen (the transaction would carry the empty date) and matching no opener pattern
\* is never emitted as a transaction, and the segmenter loops never throw.
C6_GracefulDegradation ==
    /\ pc \in RowPcs \cup FePcs \cup {"tok_scan"} => error = ""
    /\ (pc \in RowPcs \cup FePcs /\ ~noActivityMarker(lines)) \/ pc \in {"tok_scan", "tok_done"} =>
          \A k \in 1..Len(transactions) :
              transactions[k].date = "" => matchesOpener(transactions[k].description)

\* C7: when no line of the document includes 'Details of your account activity', the
\* line-based parsers (the row-based parseTransactions and the front end) never hold
\* a transaction.
C7_MissingMarker ==
    (pc \in RowPcs \cup FePcs /\ noActivityMarker(lines)) => transactions = <<>>

\* C8: when no item equals 'Opening Balance', the token-scan parseTransactions ends
\* with the error 'Could not find transaction start marker' and with no transaction.
C8_StartMarkerError ==
    (pc = "tok_done" /\ findTransactionStartIndex(lines) = 0 - 1)
    => error = StartMarkerMessage /\ transactions = <<>>

\* the description parseTableColumns gives the row is matched by no deposit and no
\* withdrawal pattern, and the row carries an amount, no date and no marker
isUnmatchedRow(row, date) ==
    /\ dateMatch(row) = ""
    /\ ~isEndOfTransactions(row)
    /\ ~isNonTransactionLine(row)
    /\ Len(parseTableColumns(row, date)) = 1
    /\ ~isDepositTransaction(parseTableColumns(row, date)[1].description)
    /\ ~isWithdrawalTransaction(parseTableColumns(row, date)[1].description)

\* C9: a row whose description matches no deposit and no withdrawal pattern and that
\* carries one, two or more amounts is emitted as a withdrawal with a negative amount:
\* alone under the date "12 Jan" in the row-based parser it gives exactly one such
\* transaction, and so does an opener of the token scan that matches neither pattern
\* list and is followed by an amount.
C9_DefaultWithdrawal ==
    /\ ( /\ pc = "row_done"
         /\ Len(lines) = 3 /\ lines[1] = ActivityMarker /\ lines[2] = "12 Jan"
         /\ isUnmatchedRow(lines[3], "12 Jan") )
       => /\ Len(transactions) = 1
          /\ transactions[1].type = "withdrawal"
          /\ transactions[1].amount < 0
    /\ ( /\ pc = "tok_done"
         /\ Len(lines) = 4 /\ lines[1] = "Opening Balance" /\ lines[2] = "12 Jan"
         /\ isTransactionDescription(lines[3])
         /\ ~isDepositType(lines[3]) /\ ~isWithdrawalType(lines[3])
         /\ isAmountToken(lines[4]) /\ ~isLikelyBalance(lines[4]) )
       => /\ Len(transactions) = 1
          /\ transactions[1].type = "withdrawal"
          /\ transactions[1].amount < 0

\* C10: every emitted transaction whose description matches both a deposit pattern and
\* a withdrawal pattern is a deposit with a positive amount, in the row-based parser, in
\* the token scan, and in the front end (whose transactions carry no type).
C10_TieBreak ==
    /\ pc \in RowPcs =>
          \A k \in 1..Len(transactions) :
              ( /\ isDepositTransaction(transactions[k].description)
                /\ isWithdrawalTransaction(transactions[k].description) )
              => transactions[k].type = "deposit" /\ transactions[k].amount > 0
    /\ pc \in TokPcs =>
          \A k \in 1..Len(transactions) :
              ( /\ isDepositType(transactions[k].description)
                /\ isWithdrawalType(transactions[k].description) )
              => transactions[k].type = "deposit" /\ transactions[k].amount > 0
    /\ pc \in FePcs =>
          \A k \in 1..Len(transactions) :
              ( /\ feIsDeposit(transactions[k].description)
                /\ isWithdrawalTransaction(transactions[k].description) )
              => transactions[k].amount > 0

(***************************************************************************)
(* Properties of the end of segmentation                                   *)
(***************************************************************************)
\* the positions after the activity marker of the lines that are end markers
endMarkersAfterStart(ls) ==
    {k \in (findActivityStart(ls) + 2)..Len(ls) : isEndOfTransactions(ls[k])}

\* the position of the first end marker after the activity marker
firstEndMarker(ls) ==
    CHOOSE k \in endMarkersAfterStart(ls) : \A h \in endMarkersAfterStart(ls) : k <= h

\* C11: in the row-based parseTransactions, when an end marker line follows the
\* activity marker, every emitted transaction is built from a line between the two
\* markers and no emitted description contains the text of the first end marker line.
C11_DoneAtEndMarker ==
    ( /\ pc \in {"row_start", "row_headers", "row_scan", "row_done"}
      /\ findActivityStart(lines) # 0 - 1
      /\ endMarkersAfterStart(lines) # {} )
    => \A k \in 1..Len(transactions) :
          /\ \E h \in (findActivityStart(lines) + 2)..(firstEndMarker(lines) - 1) :
                transactions[k].rawLine = lines[h]
          /\ ~includes(transactions[k].description, trim(lines[firstEndMarker(lines)]))

(***************************************************************************)
(* Properties of the statement summary                                     *)
(***************************************************************************)
\* no line of the statement holds the text sub
noLineWith(sub) == \A k \in 1..Len(lines) : ~includes(lines[k], sub)

\* C12: extractStatementMetadata returns the default of a field, '' for the account
\* number and for both period dates and 0 for the four amounts, whenever no line
\* carries the marker of that field, whatever the other fields are.
C12_MissingFieldDefaults ==
    pc = "meta_done" =>
       /\ noLineWith(AccountNumber) => metadata.accountNumber = ""
       /\ (\A k \in 1..Len(lines) : periodMatch(lines[k]) = <<>>)
             => metadata.period = [from |-> "", to |-> ""]
       /\ (noLineWith("Your opening balance on") /\ noLineWith("Opening Balance"))
             => metadata.openingBalance = 0
       /\ (noLineWith("Your closing balance") /\ noLineWith("Closing Balance"))
             => metadata.closingBalance = 0
       /\ noLineWith("Total deposits") => metadata.totalDeposits = 0
       /\ noLineWith("Total withdrawals") => metadata.totalWithdrawals = 0

(***************************************************************************)
(* Properties of concurrent calls                                          *)
(***************************************************************************)
\* the lines extractLines of a call that runs alone has collected after n pages
RECURSIVE linesAlone(_, _)
linesAlone(doc, n) ==
    IF n = 0 THEN <<>> ELSE linesAlone(doc, n - 1) \o sortedLines(doc[n])

\* the result of parseStatement on a document when the call runs alone
resultAlone(doc) ==
    feParse(getTransactionLines(nonEmpty(linesAlone(doc, Len(doc)))), 0, "", <<>>)

\* C13: while two parseStatement calls on two documents interleave at their awaits, the
\* lines each call has collected are the lines it collects when it runs alone, and the
\* transactions each call returns are the transactions it returns when it runs alone.
C13_CallIsolation ==
    pc = "conc" =>
       \A c \in CallIds :
          /\ calls[c].pc = "page" =>
                /\ calls[c].allLines = linesAlone(calls[c].pages, calls[c].pageNum - 1)
                /\ calls[c].transactions = <<>>
          /\ calls[c].pc = "done" =>
                /\ calls[c].allLines = nonEmpty(linesAlone(calls[c].pages, Len(calls[c].pages)))
                /\ calls[c].transactions = resultAlone(calls[c].pages)

\* call 1 has returned its transactions while call 2, on another document, is suspended
\* between its two pages
C13_Witness ==
    /\ pc = "conc"
    /\ calls[1].pc = "done" /\ Len(calls[1].pages) = 2 /\ Len(calls[1].transactions) = 2
    /\ calls[2].pc = "page" /\ Len(calls[2].pages) = 2 /\ calls[2].pageNum = 2
    /\ Len(calls[2].allLines) > 0
    /\ calls[1].pages # calls[2].pages

(***************************************************************************)
(* Properties of the dates of the emitted transactions                     *)
(***************************************************************************)
\* C14: in every state of every segmenter, each transaction of the result list has a
\* date that is not the empty string.
C14_DateNeverEmpty ==
    \A k \in 1..Len(transactions) : transactions[k].date # ""

(***************************************************************************)
(* Properties of the continuation lines of the row-based segmenter         *)
(***************************************************************************)
\* a row of the activity table with an amount and a balance of its own and no date
isUndatedRow(line) ==
    /\ dateMatch(line) = ""
    /\ Len(extractAllAmounts(line)) >= 2
    /\ ~isEndOfTransactions(line)
    /\ ~isNonTransactionLine(line)

\* C15: once the row-based parseTransactions has returned on a document without end
\* marker, a row with its own amounts and no date that directly follows an emitted row
\* is not part of the description of that row and is emitted as a transaction itself.
C15_AbsorptionStopsAtRow ==
    ( /\ pc = "row_done"
      /\ findActivityStart(lines) # 0 - 1
      /\ \A h \in 1..Len(lines) : ~isEndOfTransactions(lines[h]) )
    => \A k \in (findActivityStart(lines) + 2)..(Len(lines) - 1) :
          ( /\ isUndatedRow(lines[k + 1])
            /\ \E n \in 1..Len(transactions) : transactions[n].rawLine = lines[k] )
          => /\ \A n \in 1..Len(transactions) :
                   transactions[n].rawLine = lines[k]
                   => ~includes(transactions[n].description, trim(lines[k + 1]))
             /\ \E n \in 1..Len(transactions) : transactions[n].rawLine = lines[k + 1]

(***************************************************************************)
(* Properties of input exhaustion                                          *)
(***************************************************************************)
\* the activity marker is in the lines and no line after it is a closing-balance line
markerWithoutClosing(ls) ==
    /\ findIndex(ls, ActivityMarker) # 0 - 1
    /\ findIndexAfter(ls, findIndex(ls, ActivityMarker), "Closing Balance") = 0 - 1

\* C16: when the activity marker is present and no closing-balance marker follows it,
\* the front end segments every line after the marker up to and including the last
\* line, so that a last line with an amount has a transaction of its own once the call
\* has returned; in the token scan without end marker the scan ends at items.length.
C16_InputExhaustion ==
    /\ (pc \in {"fe_scan", "fe_done"} /\ markerWithoutClosing(lines))
       => transactionLines =
             filterNoise(SubSeq(lines, findIndex(lines, ActivityMarker) + 2, Len(lines)))
    /\ ( /\ pc = "fe_done" /\ markerWithoutClosing(lines)
         /\ Len(lines) > findIndex(lines, ActivityMarker) + 1
         /\ Len(feMatchAmounts(lines[Len(lines)], 1)) # 0
         /\ filterNoise(<<lines[Len(lines)]>>) # <<>> )
       => /\ Len(transactions) > 0
          /\ transactions[Len(transactions)].description = feDescription(lines[Len(lines)])
    /\ ( /\ pc \in {"tok_scan", "tok_done"} /\ error = ""
         /\ \A k \in 1..Len(lines) : ~includes(lines[k], "Please check this Account Statement") )
       => endIndex = Len(lines)

(***************************************************************************)
(* Properties of the lookahead of the token scan                           *)
(***************************************************************************)
\* the 0-based positions of the lookahead window that starts at k: at most 5 tokens,
\* none of them after a Date or an opener
lookaheadWindow(items, k) ==
    {j \in k..(k + 4) :
        /\ j < Len(items)
        /\ \A h \in k..(j - 1) : ~isDate(items[h + 1]) /\ ~isTransactionDescription(items[h + 1])}

\* C17: in the token scan the amount of every emitted transaction is the value of an
\* amount token inside the lookahead window of its opener, at most 5 tokens after the
\* opener and its reference code and not after the next Date or opener, and so is its
\* balance when it has one.
C17_LookaheadWindow ==
    pc \in {"tok_scan", "tok_done"} =>
       \A n \in 1..Len(transactions) :
          /\ \E j \in lookaheadWindow(lines, transactions[n].nextIndex) :
                /\ isAmountToken(lines[j + 1])
                /\ parseCents(lines[j + 1]) = abs(transactions[n].amount)
          /\ transactions[n].balance # <<>> =>
                \E j \in lookaheadWindow(lines, transactions[n].nextIndex) :
                   /\ isAmountToken(lines[j + 1])
                   /\ parseCents(lines[j + 1]) = transactions[n].balance[1]

\* the amount is the last token of the window and the balance-like token after the
\* window is left alone
C17_Witness ==
    /\ pc = "tok_done"
    /\ lines = <<"Opening Balance", "12 Jan", "Cash withdrawal BR TO BR", "TIM HORTONS",
                 "TIM HORTONS", "TIM HORTONS", "TIM HORTONS", "100.00", "1,500.00">>
    /\ Len(transactions) = 1
    /\ transactions[1].amount = 0 - 10000
    /\ transactions[1].balance = <<>>

(***************************************************************************)
(* Conservation, input order and page order of the fragment grouper        *)
(***************************************************************************)
\* the words of text are the trimmed texts of the fragments of positions idx of the
\* page, each fragment once, in some order
isLineOf(items, idx, text) ==
    /\ Len(splitSpaces(text)) = Cardinality(idx)
    /\ \E f \in [1..Cardinality(idx) -> idx] :
          /\ \A a, b \in 1..Cardinality(idx) : a # b => f[a] # f[b]
          /\ \A a \in 1..Cardinality(idx) : splitSpaces(text)[a] = trim(items[f[a]].str)

\* C18: every processed page has as many lines as its non-blank fragments have distinct
\* rounded y values, and the lines correspond one to one to these values: the line of a
\* value holds each non-blank fragment of that rounded y exactly once and no other
\* fragment, so blank fragments are in no line.
C18_Conservation ==
    pc \in {"grp_page", "grp_done", "ext_page", "ext_done"} =>
       /\ Len(lines) = linesBefore(pages, pageNum)
       /\ \A p \in 1..(pageNum - 1) :
          LET first == linesBefore(pages, p)
              keys  == keysOf(pages[p])
          IN  /\ Len(lines) >= first + Cardinality(keys)
              /\ \E g \in [keys -> (first + 1)..(first + Cardinality(keys))] :
                    /\ \A y, z \in keys : y # z => g[y] # g[z]
                    /\ \A y \in keys : isLineOf(pages[p], keptAt(pages[p], y), lines[g[y]])

\* two fragments whose y differ and round to the same integer are in one line, and the
\* blank fragment of the page is in none
C18_Witness ==
    /\ pc \in {"grp_done", "ext_done"}
    /\ pages = << << [str |-> "D", x |-> 1, y2 |-> 19],
                     [str |-> "B", x |-> 1, y2 |-> 20],
                     [str |-> " ", x |-> 2, y2 |-> 60] >> >>
    /\ lines = <<"D B">>

\* the orders in which the fragments of a page can be handed to the grouper
permutationsOf(items) ==
    {[k \in 1..Len(items) |-> items[f[k]]] :
        f \in {g \in [1..Len(items) -> 1..Len(items)] :
                  \A a, b \in 1..Len(items) : a # b => g[a] # g[b]}}

\* C19: the lines a grouper returns for a document of one page are the lines it returns
\* for every other order of the fragments of that page, fragments of one line with the
\* same x included.
C19_OrderIndependence ==
    /\ (pc = "grp_done" /\ Len(pages) = 1)
       => \A q \in permutationsOf(pages[1]) : groupPage(q) = lines
    /\ (pc = "ext_done" /\ Len(pages) = 1)
       => \A q \in permutationsOf(pages[1]) : nonEmpty(sortedLines(q)) = lines

\* C20: a step that groups page p leaves the lines of the pages before p as they are and
\* in their places, and appends after them one line per distinct rounded y of page p,
\* each made of fragments of page p only; the return step changes no line.
C20_PageOrder ==
    [][ /\ (pc \in {"grp_page", "ext_page"} /\ pageNum' = pageNum + 1)
           => /\ Len(lines') = Len(lines) + Cardinality(keysOf(pages[pageNum]))
              /\ SubSeq(lines', 1, Len(lines)) = lines
              /\ \A k \in (Len(lines) + 1)..Len(lines') :
                    \E y \in keysOf(pages[pageNum]) :
                       isLineOf(pages[pageNum], keptAt(pages[pageNum], y), lines'[k])
        /\ (pc \in {"grp_page", "ext_page"} /\ pageNum' = pageNum) => lines' = lines
      ]_vars

\* the second page has a line above and a line at the rounded y of the line of the
\* first page; both follow the line of the first page
C20_Witness ==
    /\ pc \in {"grp_done", "ext_done"}
    /\ pages = << << [str |-> "A", x |-> 5, y2 |-> 20] >>,
                  << [str |-> "C", x |-> 0, y2 |-> 60], [str |-> "B", x |-> 1, y2 |-> 20] >> >>
    /\ lines = <<"A", "C", "B">>

(***************************************************************************)
(* Properties of the token classifiers                                     *)
(***************************************************************************)
\* the text is 1-3 digits, groups of ',ddd' and then nothing or '.dd'
hasAmountShape(text) == amountEnd(text, 1) = Len(text) + 1

\* the text has the shape of an amount and 0.01 <= value <= 1,000,000
isPlausibleAmount(text) ==
    hasAmountShape(text) /\ parseCents(text) >= 1 /\ parseCents(text) <= 100000000

\* C21: every classified token is an amount for the isAmount of the first prototype,
\* for the isAmount of the token scan and, when it has the shape of an amount, for the
\* filter of extractAllAmounts exactly when it has the shape and 0.01 <= value <=
\* 1,000,000.
C21_AmountRange ==
    \A k \in 1..Len(verdicts) :
       /\ verdicts[k].amountProto = isPlausibleAmount(verdicts[k].text)
       /\ verdicts[k].amountTok = isPlausibleAmount(verdicts[k].text)
       /\ hasAmountShape(verdicts[k].text)
             => (Len(verdicts[k].amountsRow) = 1) = isPlausibleAmount(verdicts[k].text)

\* C22: for every classified token, isLikelyBalance holds exactly when the isAmount of
\* the same class holds, the value is greater than 1000 and the text contains a ',';
\* so a balance is always an amount and '1,000.00' is not a balance.
C22_BalanceClassification ==
    \A k \in 1..Len(verdicts) :
       /\ verdicts[k].balanceProto =
             ( /\ verdicts[k].amountProto
               /\ parseCents(verdicts[k].text) > 100000
               /\ includes(verdicts[k].text, ",") )
       /\ verdicts[k].balanceTok =
             ( /\ verdicts[k].amountTok
               /\ parseCents(verdicts[k].text) > 100000
               /\ includes(verdicts[k].text, ",") )
       /\ verdicts[k].text = "1,000.00"
             => ~verdicts[k].balanceProto /\ ~verdicts[k].balanceTok

\* '1,000.01' has been classified as a balance by both classes
C22_Witness ==
    /\ pc = "cls_done"
    /\ verdicts[2].text = "1,000.01"
    /\ verdicts[2].balanceProto /\ verdicts[2].balanceTok
    /\ verdicts[2].amountProto /\ verdicts[2].amountTok

\* the opener is a transfer and the text is 6-12 alphanumeric characters, not all in
\* lower case and not all in upper case
isTransferReference(text, previous) ==
    /\ includes(previous, "e-Transfer received") \/ includes(previous, "e-Transfer sent")
    /\ Len(text) >= 6 /\ Len(text) <= 12
    /\ \A p \in 1..Len(text) : IsAlnum(Ch(text, p))
    /\ text # toLowerCase(text) /\ text # toUpperCase(text)

\* C23: isReferenceCode accepts a token after an opener exactly when the opener is
\* 'e-Transfer received' or 'e-Transfer sent' and the token is 6-12 alphanumeric
\* characters of mixed case; after any other opener it accepts none.
C23_ReferenceCode ==
    \A k \in 1..Len(verdicts) :
       verdicts[k].reference = isTransferReference(verdicts[k].text, verdicts[k].previous)

(***************************************************************************)
(* Properties of header and footer lines                                   *)
(***************************************************************************)
\* a table header, a line of bank boilerplate or footer text, or page numbering
isNoiseLine(line) == isHeaderLine(line) \/ isMetadataLine(line) \/ isPageNumbering(line)

\* C24: in the row-based parser and in the front end no transaction is built from a
\* header line, a boilerplate or footer line or a page numbering line 'N of M' of the
\* input, and no description contains the text of such a line.
C24_NoiseNeverInTransaction ==
    pc \in RowPcs \cup FePcs =>
       \A k \in 1..Len(lines) :
          isNoiseLine(lines[k]) =>
             \A n \in 1..Len(transactions) :
                /\ pc \in RowPcs => transactions[n].rawLine # lines[k]
                /\ ~includes(transactions[n].description, trim(lines[k]))

(***************************************************************************)
(* Properties of the amounts of the statement summary                      *)
(***************************************************************************)
\* the positions of the line at which a digit starts a text of the amount shape
amountStarts(line) == {p \in 1..Len(line) : amountEnd(line, p) # 0}

\* the value in cents of the leftmost amount embedded in the line
firstEmbeddedAmount(line) ==
    LET p == CHOOSE x \in amountStarts(line) : \A y \in amountStarts(line) : x <= y
    IN  parseCents(SubSeq(line, p, amountEnd(line, p) - 1))

\* the value of a field after a line: the leftmost amount of a labelled line, the
\* value before for a line without the label or without an amount
fieldAfter(labelled, line, before) ==
    IF labelled /\ amountStarts(line) # {} THEN firstEmbeddedAmount(line) ELSE before

C26_AppendOnly ==
    [][ /\ Len(transactions') >= Len(transactions)
        /\ Len(transactions') <= Len(transactions) + 1
        /\ SubSeq(transactions', 1, Len(transactions)) = transactions
        /\ Len(transactions') = Len(transactions) + 1 =>
              /\ i' > i
              /\ pc = "row_scan" => transactions'[Len(transactions')].rawLine = lines[i + 1]
              /\ pc = "tok_scan" =>
                    /\ startsWith(transactions'[Len(transactions')].rawLine, lines[i + 1])
                    /\ transactions'[Len(transactions')].nextIndex > i
      ]_vars

\* the row-based parser has returned two transactions of two rows, in the order of the rows
C26_Witness ==
    /\ pc = "row_done"
    /\ Len(lines) = 4
    /\ Len(transactions) = 2
    /\ transactions[1].rawLine = lines[3]
    /\ transactions[2].rawLine = lines[4]
    /\ lines[3] # lines[4]

\* the 0-based position where the lookahead of the opener at position k starts: after
\* the opener and its reference code
windowStart(items, k) ==
    IF k + 1 < Len(items) /\ isReferenceCode(items[k + 2], items[k + 1]) THEN k + 2 ELSE k + 1

\* the positions of the lookahead window of the opener at k that hold an amount token
\* that is not balance-like
plainAmounts(items, k) ==
    {j \in lookaheadWindow(items, windowStart(items, k)) :
        isAmountToken(items[j + 1]) /\ ~isLikelyBalance(items[j + 1])}

\* the positions of the lookahead window of the opener at k that hold a balance-like token
balanceLike(items, k) ==
    {j \in lookaheadWindow(items, windowStart(items, k)) : isLikelyBalance(items[j + 1])}

\* C27: in the token scan no emitted transaction has an amount above 1000 in absolute
\* value; at every opener, the amount of the transaction emitted is the value of an
\* amount token of the window that is not balance-like, its balance, when it has one,
\* is the value of a balance-like token of the window, and an opener whose window has
\* no amount token other than balance-like ones emits no transaction.
C27_BalanceNeverAmount ==
    /\ [](pc \in {"tok_scan", "tok_done"} =>
             \A n \in 1..Len(transactions) : abs(transactions[n].amount) <= 100000)
    /\ [][ (/\ pc = "tok_scan"
            /\ i < endIndex
            /\ ~isDate(trim(lines[i + 1]))
            /\ isTransactionDescription(trim(lines[i + 1])))
           => /\ plainAmounts(lines, i) = {} => transactions' = transactions
              /\ transactions' # transactions =>
                    /\ \E j \in plainAmounts(lines, i) :
                          parseCents(lines[j + 1]) = abs(transactions'[Len(transactions')].amount)
                    /\ transactions'[Len(transactions')].balance # <<>> =>
                          \E j \in balanceLike(lines, i) :
                             parseCents(lines[j + 1]) = transactions'[Len(transactions')].balance[1]
         ]_vars

\* an opener followed by 1,000.00 and 1,500.00 has the amount 1000 and the balance 1500
C27_Witness ==
    /\ pc = "tok_done"
    /\ lines = <<"Opening Balance", "12 Jan", "e-Transfer received", "1,000.00", "1,500.00">>
    /\ Len(transactions) = 1
    /\ transactions[1].amount = 100000
    /\ transactions[1].balance = <<150000>>

\* an opener whose only amount token is balance-like has emitted nothing
C27_WitnessNoAmount ==
    /\ pc = "tok_done"
    /\ lines = <<"Opening Balance", "12 Jan", "e-Transfer received", "1,500.00">>
    /\ transactions = <<>>

\* C28: every iteration of the row-based loop and of the token-scan loop leaves the scan
\* index larger than it was and not beyond the end of the input, whether it emits a
\* transaction, discards a row or skips continuation lines, the loop has never made
\* more iterations than the input has lines or tokens, and every call reaches its return.
C28_Termination ==
    /\ [](steps <= Len(lines))
    /\ [][ (pc \in {"row_scan", "tok_scan"} /\ pc' = pc) => (i' > i /\ i' <= Len(lines)) ]_vars
    /\ (pc \in {"row_start", "tok_start"}) ~> (pc \in {"row_done", "tok_done"})

\* a return at the end of the input after an iteration that emitted a transaction and
\* skipped its continuation line
C28_Witness ==
    /\ pc = "row_done"
    /\ lines = <<ActivityMarker, "13 Feb Payroll Deposit 1,500.00 2,380.00", "1 of 2">>
    /\ i = 3
    /\ Len(transactions) = 1
    /\ steps = 1

(***************************************************************************)
(* Properties of the upload components                                     *)
(***************************************************************************)
\* C29: in the three upload components at most one handler call is suspended at an
\* await at any time; while isProcessing is true the buttons are disabled and no handler
\* starts a parser action; a handler that leaves its last await, by a promise that
\* resolves or by one that rejects, leaves isProcessing false; and whenever isProcessing
\* is true it is false again later.
C29_ProcessingEnds ==
    /\ [](pc = "ui" => Len(ui.pending) <= 1)
    /\ [](pc = "ui" /\ ui.isProcessing => buttonDisabled(ui))
    /\ [][ pc = "ui" /\ ui.isProcessing => Len(ui'.pending) <= Len(ui.pending) ]_vars
    /\ [][ pc = "ui" /\ Len(ui'.pending) < Len(ui.pending) => ~ui'.isProcessing ]_vars
    /\ (pc = "ui" /\ ui.isProcessing) ~> (pc = "ui" /\ ~ui.isProcessing)

\* the parse of part_001 has rejected: the error is shown and isProcessing is false again
C29_Witness ==
    /\ pc = "ui"
    /\ ui.component = "part_001"
    /\ ui.selectedFile = "jan.pdf"
    /\ ui.error = "Error processing PDF: Invalid PDF structure."
    /\ ~ui.isProcessing
    /\ ui.pending = <<>>

\* C30: in the component of part_000 a displayed list of transactions is the result of
\* parsing the file that is selected.
C30_ShownOfSelected ==
    (pc = "ui" /\ ui.component = "part_000" /\ ui.transactions # <<>>)
       => ui.shownOf = ui.selectedFile
====
